---- MODULE Spec2Model ----
(***************************************************************************)
(* Test Result Correlation and Source Reference Resolution of the xUnit    *)
(* tester extension: the ingestion of a TRX report into the Result Store   *)
(* (parseResultsAndUpdateDecorations, TestExplorerProvider) and the lazy   *)
(* resolution of the production files a failed test method references.     *)
(*                                                                         *)
(* JavaScript strings are sequences of one-character strings, so that      *)
(* includes, split, startsWith and the glob patterns are computed, not     *)
(* assumed.  A JavaScript async function runs without interruption between *)
(* two awaits: every action below is one such stretch.                     *)
(***************************************************************************)
EXTENDS Integers, Sequences, FiniteSets, TLC

(***************************************************************************)
(* String literals of the program and of the modelled workspaces.          *)
(***************************************************************************)
S_Test == <<"T","e","s","t">>  \* Test
S_Tests == <<"T","e","s","t","s">>  \* Tests
S_bin == <<"/","b","i","n","/">>  \* /bin/
S_obj == <<"/","o","b","j","/">>  \* /obj/
S_cs == <<".","c","s">>  \* .cs
S_TestsCs == <<"T","e","s","t","s",".","c","s">>  \* Tests.cs
S_nodeModules == <<"/","n","o","d","e","_","m","o","d","u","l","e","s","/">>  \* /node_modules/
S_Controllers == <<"/","C","o","n","t","r","o","l","l","e","r","s","/">>  \* /Controllers/
S_Services == <<"/","S","e","r","v","i","c","e","s","/">>  \* /Services/
S_Service == <<"/","S","e","r","v","i","c","e","/">>  \* /Service/
S_Controller == <<"C","o","n","t","r","o","l","l","e","r">>  \* Controller
S_ServiceWord == <<"S","e","r","v","i","c","e">>  \* Service
S_umock == <<"_","m","o","c","k">>  \* _mock
S_mock == <<"m","o","c","k">>  \* mock
S_u == <<"_">>  \* _
S_Passed == <<"P","a","s","s","e","d">>  \* Passed
S_Failed == <<"F","a","i","l","e","d">>  \* Failed
S_NotExecuted == <<"N","o","t","E","x","e","c","u","t","e","d">>  \* NotExecuted
P_OrderTests == <<"/","w","/","T","/","O","r","d","e","r","C","o","n","t","r","o","l","l","e","r","T","e","s","t","s",".","c","s">>  \* /w/T/OrderControllerTests.cs
P_PayTests == <<"/","w","/","T","/","P","a","y","S","e","r","v","i","c","e","T","e","s","t","s",".","c","s">>  \* /w/T/PayServiceTests.cs
P_Order == <<"/","w","/","s","/","O","r","d","e","r",".","c","s">>  \* /w/s/Order.cs
P_IPay == <<"/","w","/","s","/","I","P","a","y",".","c","s">>  \* /w/s/IPay.cs
P_Pay == <<"/","w","/","s","/","P","a","y",".","c","s">>  \* /w/s/Pay.cs
P_ObjPay == <<"/","w","/","o","b","j","/","P","a","y",".","c","s">>  \* /w/obj/Pay.cs
P_Invalid == <<"/","w","/","s","/","I","n","v","a","l","i","d","S","k","u",".","c","s">>  \* /w/s/InvalidSku.cs
P_InvalidTest == <<"/","w","/","T","/","I","n","v","a","l","i","d","T","e","s","t","D","a","t","a",".","c","s">>  \* /w/T/InvalidTestData.cs
W_OrderTests == <<"C",":","\\","w","\\","T","\\","O","r","d","e","r","C","o","n","t","r","o","l","l","e","r","T","e","s","t","s",".","c","s">>  \* C:\\w\\T\\OrderControllerTests.cs
W_PayTests == <<"C",":","\\","w","\\","T","\\","P","a","y","S","e","r","v","i","c","e","T","e","s","t","s",".","c","s">>  \* C:\\w\\T\\PayServiceTests.cs
W_Order == <<"C",":","\\","w","\\","s","\\","O","r","d","e","r",".","c","s">>  \* C:\\w\\s\\Order.cs
W_ObjPay == <<"C",":","\\","w","\\","o","b","j","\\","P","a","y",".","c","s">>  \* C:\\w\\obj\\Pay.cs
W_Pay == <<"C",":","\\","w","\\","s","\\","P","a","y",".","c","s">>  \* C:\\w\\s\\Pay.cs
C_OrderTests == <<"N",".","O","r","d","e","r","C","o","n","t","r","o","l","l","e","r","T","e","s","t","s",","," ","A">>  \* N.OrderControllerTests, A
C_PayTests == <<"N",".","P","a","y","S","e","r","v","i","c","e","T","e","s","t","s">>  \* N.PayServiceTests
C_Ghost == <<"N",".","G","h","o","s","t","T","e","s","t","s">>  \* N.GhostTests
M_Creates == <<"C","r","e","a","t","e","s">>  \* Creates
M_QCreates == <<"N",".","O","r","d","e","r","C","o","n","t","r","o","l","l","e","r","T","e","s","t","s",".","C","r","e","a","t","e","s">>  \* N.OrderControllerTests.Creates
M_Rejects == <<"R","e","j","e","c","t","s","I","n","v","a","l","i","d">>  \* RejectsInvalid
T_Order == <<"O","r","d","e","r">>  \* Order
V_order == <<"_","o","r","d","e","r">>  \* _order
V_mockPay == <<"_","m","o","c","k","P","a","y">>  \* _mockPay
V_Assert == <<"A","s","s","e","r","t">>  \* Assert
T_MockIPay == <<"M","o","c","k","<","I","P","a","y",">">>  \* Mock<IPay>
P_PricingTests == <<"/","w","/","T","/","P","r","i","c","i","n","g","S","e","r","v","i","c","e","T","e","s","t","s",".","c","s">>  \* /w/T/PricingServiceTests.cs
P_PricingService == <<"/","w","/","s","/","P","r","i","c","i","n","g","S","e","r","v","i","c","e",".","c","s">>  \* /w/s/PricingService.cs
P_IPricing == <<"/","w","/","s","/","I","P","r","i","c","i","n","g","E","n","g","i","n","e",".","c","s">>  \* /w/s/IPricingEngine.cs
P_Pricing == <<"/","w","/","s","/","P","r","i","c","i","n","g","E","n","g","i","n","e",".","c","s">>  \* /w/s/PricingEngine.cs
P_NotFound == <<"/","w","/","s","/","N","o","t","F","o","u","n","d","R","e","s","u","l","t",".","c","s">>  \* /w/s/NotFoundResult.cs
P_MissingReturn == <<"/","w","/","s","/","M","i","s","s","i","n","g","R","e","t","u","r","n",".","c","s">>  \* /w/s/MissingReturn.cs
C_PricingTests == <<"N",".","P","r","i","c","i","n","g","S","e","r","v","i","c","e","T","e","s","t","s">>  \* N.PricingServiceTests
M_Missing == <<"S","h","o","u","l","d","_","R","e","t","u","r","n","_","N","o","t","F","o","u","n","d","_","W","h","e","n","M","i","s","s","i","n","g">>  \* Should_Return_NotFound_WhenMissing
T_MockIPricing == <<"M","o","c","k","<","I","P","r","i","c","i","n","g","E","n","g","i","n","e",">">>  \* Mock<IPricingEngine>
V_mockPricing == <<"_","m","o","c","k","P","r","i","c","i","n","g">>  \* _mockPricing
V_Object == <<"O","b","j","e","c","t">>  \* Object
P_ObjOrderTests == <<"/","w","/","o","b","j","/","O","r","d","e","r","C","o","n","t","r","o","l","l","e","r","T","e","s","t","s",".","c","s">>  \* /w/obj/OrderControllerTests.cs
E_bad == <<"b","a","d">>  \* bad
E_trace == <<"a","t"," ","T">>  \* at T
E_out == <<"o","u","t">>  \* out
E_TestSp == <<"T","e","s","t"," ">>  \* "Test "
E_spFailed == <<" ","f","a","i","l","e","d">>  \* " failed"
Upper == {"A","B","C","D","E","F","G","H","I","J","K","L","M","N","O","P","Q","R","S","T","U","V","W","X","Y","Z"}

(***************************************************************************)
(* String.prototype methods, on sequences of characters.                   *)
(***************************************************************************)
Includes(s, sub) ==
    \E i \in 1..(Len(s) - Len(sub) + 1) : SubSeq(s, i, i + Len(sub) - 1) = sub

StartsWith(s, pre) ==
    Len(pre) <= Len(s) /\ SubSeq(s, 1, Len(pre)) = pre

EndsWith(s, suf) ==
    Len(suf) <= Len(s) /\ SubSeq(s, Len(s) - Len(suf) + 1, Len(s)) = suf

\* s.split(ch): the pieces between the occurrences of the character ch
RECURSIVE SplitFrom(_, _, _)
SplitFrom(s, ch, cur) ==
    IF s = <<>> THEN <<cur>>
    ELSE IF Head(s) = ch THEN <<cur>> \o SplitFrom(Tail(s), ch, <<>>)
    ELSE SplitFrom(Tail(s), ch, Append(cur, Head(s)))

Split(s, ch) == SplitFrom(s, ch, <<>>)

Last(q) == q[Len(q)]

\* the index of the first (last) occurrence of ch in s, 0 when there is none
IndexOf(s, ch) ==
    IF \E i \in 1..Len(s) : s[i] = ch
    THEN CHOOSE i \in 1..Len(s) : s[i] = ch /\ \A j \in 1..(i - 1) : s[j] # ch
    ELSE 0

LastIndexOf(s, ch) ==
    IF \E i \in 1..Len(s) : s[i] = ch
    THEN CHOOSE i \in 1..Len(s) : s[i] = ch /\ \A j \in (i + 1)..Len(s) : s[j] # ch
    ELSE 0

\* the elements of the sequence q, without repetition
Range(q) == {q[i] : i \in 1..Len(q)}

\* q with e appended unless q holds it already (Set.prototype.add, in insertion order)
AddOnce(q, e) == IF e \in Range(q) THEN q ELSE Append(q, e)

RECURSIVE Flatten(_)
Flatten(qs) == IF qs = <<>> THEN <<>> ELSE Head(qs) \o Flatten(Tail(qs))

(***************************************************************************)
(* The workspace: the files vscode.workspace.findFiles walks, in the order *)
(* it reports them, and what reading and searching do.  A workspace is     *)
(* either a POSIX one (fsPath separated by /) or a Windows one (\).        *)
(***************************************************************************)
FsConfigs == <<
    \* 1: POSIX, every file present
    [files |-> <<P_OrderTests, P_PayTests, P_Order, P_IPay, P_Pay, P_ObjPay, P_Invalid, P_InvalidTest>>,
     windows |-> FALSE, unreadable |-> FALSE, searchFails |-> FALSE, text |-> 1],
    \* 2: POSIX, the production files of IPay deleted
    [files |-> <<P_OrderTests, P_PayTests, P_Order, P_ObjPay, P_Invalid, P_InvalidTest>>,
     windows |-> FALSE, unreadable |-> FALSE, searchFails |-> FALSE, text |-> 1],
    \* 3: POSIX, the test files cannot be read
    [files |-> <<P_OrderTests, P_PayTests, P_Order, P_IPay, P_Pay, P_ObjPay, P_Invalid, P_InvalidTest>>,
     windows |-> FALSE, unreadable |-> TRUE, searchFails |-> FALSE, text |-> 1],
    \* 4: POSIX, the file search fails
    [files |-> <<P_OrderTests, P_PayTests, P_Order, P_IPay, P_Pay, P_ObjPay, P_Invalid, P_InvalidTest>>,
     windows |-> FALSE, unreadable |-> FALSE, searchFails |-> TRUE, text |-> 1],
    \* 5: POSIX, the test files edited: the test methods are gone
    [files |-> <<P_OrderTests, P_PayTests, P_Order, P_IPay, P_Pay, P_ObjPay, P_Invalid, P_InvalidTest>>,
     windows |-> FALSE, unreadable |-> FALSE, searchFails |-> FALSE, text |-> 2],
    \* 6: Windows, every file present
    [files |-> <<W_OrderTests, W_PayTests, W_Order, W_Pay, W_ObjPay>>,
     windows |-> TRUE, unreadable |-> FALSE, searchFails |-> FALSE, text |-> 1],
    \* 7: POSIX, a project with the tests of a pricing service whose mocked engine has
    \* its interface and its class in files of their names
    [files |-> <<P_OrderTests, P_PricingTests, P_Order, P_IPay, P_Pay, P_PricingService,
                 P_IPricing, P_Pricing, P_NotFound, P_MissingReturn>>,
     windows |-> FALSE, unreadable |-> FALSE, searchFails |-> FALSE, text |-> 1],
    \* 8: the project of 7, the files of the pricing engine deleted
    [files |-> <<P_OrderTests, P_PricingTests, P_Order, P_IPay, P_Pay, P_PricingService,
                 P_NotFound, P_MissingReturn>>,
     windows |-> FALSE, unreadable |-> FALSE, searchFails |-> FALSE, text |-> 1],
    \* 9: the project of 7, the file search fails
    [files |-> <<P_OrderTests, P_PricingTests, P_Order, P_IPay, P_Pay, P_PricingService,
                 P_IPricing, P_Pricing, P_NotFound, P_MissingReturn>>,
     windows |-> FALSE, unreadable |-> FALSE, searchFails |-> TRUE, text |-> 1],
    \* 10: POSIX, the project built with a copy of a test class in its build output, which
    \* the file search reports before the source
    [files |-> <<P_ObjOrderTests, P_OrderTests, P_PayTests, P_Order, P_IPay, P_Pay>>,
     windows |-> FALSE, unreadable |-> FALSE, searchFails |-> FALSE, text |-> 1] >>

FsIds == 1..Len(FsConfigs)

\* path.basename: what follows the last separator
Basename(p) ==
    LET a == LastIndexOf(p, "/")
        b == LastIndexOf(p, "\\")
        k == IF a > b THEN a ELSE b
    IN  SubSeq(p, k + 1, Len(p))

\* the exclude glob **/node_modules/** of every findFiles call
InNodeModules(p) == Includes(p, S_nodeModules)

\* findFiles('**/<fileName>', '**/node_modules/**'): the files named fileName
FindByName(env, fileName) ==
    SelectSeq(env.files, LAMBDA p : Basename(p) = fileName /\ ~InNodeModules(p))

\* findFiles('**/*<word>*.cs', '**/node_modules/**')
FindByWord(env, word) ==
    SelectSeq(env.files, LAMBDA p :
        /\ EndsWith(Basename(p), S_cs)
        /\ Includes(SubSeq(Basename(p), 1, Len(Basename(p)) - Len(S_cs)), word)
        /\ ~InNodeModules(p))

\* findFiles('**/*Tests.cs', '**/node_modules/**')
FindTestFiles(env) ==
    SelectSeq(env.files, LAMBDA p : EndsWith(Basename(p), S_TestsCs) /\ ~InNodeModules(p))

\* the first maxResults elements of a search result
Limit(q, maxResults) == SubSeq(q, 1, IF Len(q) < maxResults THEN Len(q) ELSE maxResults)

(***************************************************************************)
(* The TRX report, as xml2js hands it over.  An attribute that is absent   *)
(* or empty is <<>> (both are falsy); a value that is undefined where the  *)
(* program tells it from a string is Undefined.                            *)
(***************************************************************************)
Undefined == <<"undefined">>

MaxEntries == 2

\* TestRun.TestDefinitions[0].UnitTest of every report that has the section
UnitTests == <<
    [id |-> "d1", name |-> M_QCreates, className |-> C_OrderTests, testName |-> <<>>, methodName |-> M_Creates],
    [id |-> "d2", name |-> <<>>, className |-> C_PayTests, testName |-> <<>>, methodName |-> M_Rejects],
    [id |-> "d3", name |-> M_Creates, className |-> C_Ghost, testName |-> <<>>, methodName |-> <<>>],
    [id |-> "d4", name |-> <<>>, className |-> C_OrderTests, testName |-> <<>>, methodName |-> <<>>],
    [id |-> "d5", name |-> M_Missing, className |-> C_PricingTests, testName |-> <<>>, methodName |-> M_Missing],
    [id |-> "d6", name |-> M_Rejects, className |-> C_PayTests, testName |-> M_QCreates, methodName |-> M_Missing],
    [id |-> "d7", name |-> M_Missing, className |-> C_PayTests, testName |-> <<>>, methodName |-> M_Rejects] >>

\* UnitTestResult elements
R_OrderPassed ==
    [testId |-> "d1", outcome |-> S_Passed, testName |-> M_QCreates, message |-> <<>>, stackTrace |-> <<>>, stdOut |-> <<>>]
R_OrderFailed ==
    [testId |-> "d1", outcome |-> S_Failed, testName |-> M_Creates, message |-> E_bad, stackTrace |-> <<>>, stdOut |-> <<>>]
R_PayFailed ==
    [testId |-> "d2", outcome |-> S_Failed, testName |-> <<>>, message |-> <<>>, stackTrace |-> <<>>, stdOut |-> <<>>]
R_PaySkipped ==
    [testId |-> "d2", outcome |-> S_NotExecuted, testName |-> M_Rejects, message |-> <<>>, stackTrace |-> <<>>, stdOut |-> <<>>]
R_NoDef ==
    [testId |-> "d9", outcome |-> S_Passed, testName |-> M_Creates, message |-> <<>>, stackTrace |-> <<>>, stdOut |-> <<>>]
R_Ghost ==
    [testId |-> "d3", outcome |-> S_Failed, testName |-> M_Creates, message |-> <<>>, stackTrace |-> <<>>, stdOut |-> <<>>]
R_NoName ==
    [testId |-> "d4", outcome |-> S_Failed, testName |-> <<>>, message |-> <<>>, stackTrace |-> <<>>, stdOut |-> <<>>]
R_DefTestName ==
    [testId |-> "d6", outcome |-> S_Passed, testName |-> <<>>, message |-> E_bad, stackTrace |-> <<>>, stdOut |-> E_out]
R_DefName ==
    [testId |-> "d7", outcome |-> S_Failed, testName |-> <<>>, message |-> <<>>, stackTrace |-> E_trace, stdOut |-> E_out]
R_StdOut ==
    [testId |-> "d1", outcome |-> S_Failed, testName |-> M_Creates, message |-> <<>>, stackTrace |-> <<>>, stdOut |-> E_out]
R_MissingFailed ==
    [testId |-> "d5", outcome |-> S_Failed, testName |-> M_Missing, message |-> <<>>, stackTrace |-> <<>>, stdOut |-> <<>>]

\* the elements the reports of Spec are made of: a passed, a failed and a skipped
\* test, and a result whose definition is missing
ResultPool == {R_OrderPassed, R_OrderFailed, R_PaySkipped, R_NoDef}

SeqsUpTo(S, n) == UNION {[1..k -> S] : k \in 1..n}

\* a report file that does not exist, and the two that lack a section
MissingReport == [exists |-> FALSE, hasResults |-> FALSE, hasDefs |-> FALSE, results |-> <<>>]
NoResultsReport == [exists |-> TRUE, hasResults |-> FALSE, hasDefs |-> TRUE, results |-> <<>>]
NoDefsReport == [exists |-> TRUE, hasResults |-> TRUE, hasDefs |-> FALSE, results |-> <<R_OrderFailed>>]

\* the full reports with 1..MaxEntries results out of pool
FullReports(pool) ==
    {[exists |-> TRUE, hasResults |-> TRUE, hasDefs |-> TRUE, results |-> q] :
        q \in SeqsUpTo(pool, MaxEntries)}

\* the report files a run can leave behind
Reports == {MissingReport, NoResultsReport, NoDefsReport} \cup FullReports(ResultPool)

\* !result.TestRun?.Results?.[0]?.UnitTestResult || !result.TestRun?.TestDefinitions?.[0]?.UnitTest
ReportUsable_Lenient(trx) == TRUE

ReportUsable(trx) == trx.hasResults /\ trx.hasDefs

\* the sections as the loop reads them
UnitTestResultsOf(trx) == IF trx.hasResults THEN trx.results ELSE <<>>
TestDefinitionsOf(trx) == IF trx.hasDefs THEN UnitTests ELSE <<>>

\* what testDefsMap.get gives for an id no definition has
NoDef == [id |-> "", name |-> <<>>, className |-> <<>>, testName |-> <<>>, methodName |-> <<>>]

\* testDefsMap.get(testId): the last definition with the id
TestDefOf(defs, testId) ==
    LET hits == {i \in 1..Len(defs) : defs[i].id = testId}
    IN  IF hits = {} THEN NoDef
        ELSE defs[CHOOSE i \in hits : \A j \in hits : j <= i]

\* a || b || c || d on strings: the first that is not empty, else the last
FirstTruthy(q) ==
    IF \E i \in 1..Len(q) : q[i] # <<>>
    THEN q[CHOOSE i \in 1..Len(q) : q[i] # <<>> /\ \A j \in 1..(i - 1) : q[j] = <<>>]
    ELSE Last(q)

\* the method name with the definition's name tried before the TestMethod's testName
MethodNameOf_NameFirst(testResult, testDef) ==
    LET first == FirstTruthy(<<testResult.testName, testDef.name, testDef.testName, testDef.methodName>>)
    IN  IF first # <<>> /\ Includes(first, <<".">>) THEN Last(Split(first, ".")) ELSE first

\* the method name of a result entry, <<>> when none can be determined
MethodNameOf(testResult, testDef) ==
    LET first == FirstTruthy(<<testResult.testName, testDef.testName, testDef.name, testDef.methodName>>)
    IN  IF first # <<>> /\ Includes(first, <<".">>) THEN Last(Split(first, ".")) ELSE first

\* className.split(',')[0].split('.').pop()
TestClassNameOf(testDef) == Last(Split(Split(testDef.className, ",")[1], "."))

\* the error message with StdOut tried before the StackTrace of ErrorInfo
ErrorMessageOf_StdOutFirst(testResult, methodName) ==
    IF testResult.outcome # S_Failed THEN Undefined
    ELSE IF testResult.message # <<>> THEN testResult.message
    ELSE IF testResult.stdOut # <<>> THEN testResult.stdOut
    ELSE IF testResult.stackTrace # <<>> THEN testResult.stackTrace
    ELSE E_TestSp \o methodName \o E_spFailed

\* the error message of a failed entry, Undefined for any other outcome
ErrorMessageOf(testResult, methodName) ==
    IF testResult.outcome # S_Failed THEN Undefined
    ELSE IF testResult.message # <<>> THEN testResult.message
    ELSE IF testResult.stackTrace # <<>> THEN testResult.stackTrace
    ELSE IF testResult.stdOut # <<>> THEN testResult.stdOut
    ELSE E_TestSp \o methodName \o E_spFailed

\* fileTestResults after one entry resolved to filePath: the file's record is created
\* when missing, the method record appended, the counts and the state updated
NewFileResult(filePath) ==
    [filePath |-> filePath, state |-> "pass", counts |-> [passed |-> 0, failed |-> 0], methods |-> <<>>]

\* the counting with a plain else: whatever is not Failed counts as passed
CountOutcome_ElsePassed(fileResult, outcome) ==
    IF outcome = S_Failed
    THEN [fileResult EXCEPT !.state = "fail", !.counts.failed = @ + 1]
    ELSE [fileResult EXCEPT !.counts.passed = @ + 1]

\* the two branches on outcome that follow methods.push
CountOutcome(fileResult, outcome) ==
    IF outcome = S_Failed
    THEN [fileResult EXCEPT !.state = "fail", !.counts.failed = @ + 1]
    ELSE IF outcome = S_Passed
    THEN [fileResult EXCEPT !.counts.passed = @ + 1]
    ELSE fileResult

\* the method record put at the front of methods (unshift for push)
AddMethod_AtFront(fileTestResults, filePath, methodResult) ==
    LET have == IF \E i \in 1..Len(fileTestResults) : fileTestResults[i].filePath = filePath
                THEN fileTestResults
                ELSE Append(fileTestResults, NewFileResult(filePath))
        k == CHOOSE i \in 1..Len(have) : have[i].filePath = filePath
    IN  [have EXCEPT ![k] = CountOutcome([@ EXCEPT !.methods = <<methodResult>> \o @],
                                         methodResult.outcome)]

AddMethod(fileTestResults, filePath, methodResult) ==
    LET have == IF \E i \in 1..Len(fileTestResults) : fileTestResults[i].filePath = filePath
                THEN fileTestResults
                ELSE Append(fileTestResults, NewFileResult(filePath))
        k == CHOOSE i \in 1..Len(have) : have[i].filePath = filePath
    IN  [have EXCEPT ![k] = CountOutcome([@ EXCEPT !.methods = Append(@, methodResult)],
                                         methodResult.outcome)]

\* the iteration without the test of matchingFiles.length: an entry whose class has no
\* file gets a record under the name of the file searched for
ProcessEntry_Orphan(env, defs, fileTestResults, testResult) ==
    LET testDef == TestDefOf(defs, testResult.testId)
        methodName == MethodNameOf(testResult, testDef)
        testClassName == TestClassNameOf(testDef)
        matchingFiles == Limit(FindByName(env, testClassName \o S_cs), 1)
    IN  IF testDef = NoDef THEN fileTestResults
        ELSE IF methodName = <<>> \/ testClassName = <<>> THEN fileTestResults
        ELSE AddMethod(fileTestResults,
                       IF matchingFiles = <<>> THEN testClassName \o S_cs ELSE matchingFiles[1],
                       [methodName |-> methodName, outcome |-> testResult.outcome,
                        errorMessage |-> ErrorMessageOf(testResult, methodName),
                        referencedFiles |-> <<>>])

\* one iteration of the loop over unitTestResults: the entry is skipped (no definition,
\* no method name, no class name, no file) or added to fileTestResults
ProcessEntry(env, defs, fileTestResults, testResult) ==
    LET testDef == TestDefOf(defs, testResult.testId)
        methodName == MethodNameOf(testResult, testDef)
        testClassName == TestClassNameOf(testDef)
        matchingFiles == Limit(FindByName(env, testClassName \o S_cs), 1)
    IN  IF testDef = NoDef THEN fileTestResults
        ELSE IF methodName = <<>> \/ testClassName = <<>> THEN fileTestResults
        ELSE IF matchingFiles = <<>> THEN fileTestResults
        ELSE AddMethod(fileTestResults, matchingFiles[1],
                       [methodName |-> methodName, outcome |-> testResult.outcome,
                        errorMessage |-> ErrorMessageOf(testResult, methodName),
                        referencedFiles |-> <<>>])

\* whether the iteration reaches its await of findFiles
EntrySearches(defs, testResult) ==
    LET testDef == TestDefOf(defs, testResult.testId)
    IN  /\ testDef # NoDef
        /\ MethodNameOf(testResult, testDef) # <<>>
        /\ TestClassNameOf(testDef) # <<>>

\* the loop over unitTestResults run from its first entry to its last in one workspace
RECURSIVE RunLoop(_, _, _, _)
RunLoop(env, defs, results, fileTestResults) ==
    IF results = <<>> THEN fileTestResults
    ELSE RunLoop(env, defs, Tail(results), ProcessEntry(env, defs, fileTestResults, Head(results)))

(***************************************************************************)
(* The state.                                                              *)
(*   fs      the workspace the extension runs in (an index of FsConfigs)   *)
(*   heap    the TestMethodResult objects: object id -> record.  Two       *)
(*           records with equal fields stay two objects.  An object that   *)
(*           neither the store nor a call in progress refers to is         *)
(*           dropped, as the garbage collector would                       *)
(*   store   TestExplorerProvider.testFileResults: path -> TestFileResult, *)
(*           whose methods are object ids                                  *)
(*   deco    TestResultDecorationProvider.testFileStatus: path -> status   *)
(*   ing     per call of parseResultsAndUpdateDecorations: where it        *)
(*           stands, its report, its loop index, its local fileTestResults *)
(*   rd      a root-level getChildren (createFolderNodes) in progress      *)
(*   req     per call of getReferencedFilesForMethod: where it stands      *)
(*   exp     the expansion of a file of the tree (getFailedMethodsForFile) *)
(*           whose result the tree view has not taken yet                  *)
(*   gen     the Generate Tests with AI command (generateTestsWithLLM):    *)
(*           where it stands and the outcome it ended with                 *)
(*   cls     an analysis of the text of a test class                       *)
(*           (analyzeTestClassDependencies and the lookup of the used      *)
(*           variables in its result)                                      *)
(*   sav     per call of parseResultsAndUpdateDecorations of the version   *)
(*           that keeps the test database: where its                       *)
(*           saveTestResultsToDatabase stands                              *)
(*   db      the file database.json of the project root                    *)
(*   run     per run command (run all / file / folder / single method):    *)
(*           where it stands, the report it handed to the ingestion        *)
(*   disk    the file TestResults/results.trx every run command lets       *)
(*           dotnet test write                                             *)
(***************************************************************************)
VARIABLES fs, heap, store, deco, ing, rd, req, exp, gen, cls, sav, db, run, disk

vars == <<fs, heap, store, deco, ing, rd, req, exp, gen, cls, sav, db, run, disk>>

Procs == {"p1", "p2"}
\* the call of the specifications in which ingestions do not overlap
Solo == {"p1"}
ReqIds == {"r1", "r2"}

Env == FsConfigs[fs]

IdleIngest == [pc |-> "idle", trx |-> MissingReport, i |-> 0, fileTestResults |-> <<>>]
IdleRead == [pc |-> 0, nodes |-> <<>>, views |-> <<>>]
\* a call of getReferencedFilesForMethod that is not in progress.  Of a call in progress:
\* the method record and file it was called with, the queries of the analysis still to
\* run and the files collected; of a call that ended ("done"): what it returned and how.
\* sawList is methodResult.referencedFiles as the guard read it.  History: moved, whether
\* the workspace has changed since the call.
IdleReq == [pc |-> "idle", target |-> 0, testFilePath |-> <<>>, phase |-> "none",
            todo |-> <<>>, referencedFiles |-> <<>>,
            returned |-> <<>>, how |-> "none", threw |-> FALSE, wrote |-> FALSE,
            sawList |-> <<>>, moved |-> FALSE]

\* no expansion of a file in progress; of one that returned: the path it was called
\* with, the method objects of the items it returned, whether it threw
IdleExpand == [pc |-> "idle", filePath |-> <<>>, items |-> <<>>, threw |-> FALSE]

\* the command is not running; of a run: the settings and the test file it was called
\* with, and how it ended
IdleGenerate == [pc |-> "idle", key |-> "", model |-> "unset", testFile |-> <<>>, outcome |-> "none"]

\* a text in which no pattern of the analysis matches, and the maps the analysis returns
\* for it
NoText == [fields |-> <<>>, news |-> <<>>, methods |-> <<>>]
NoAnalysis == [fieldTypes |-> <<>>, mockTypes |-> <<>>]

\* no analysis of a class text made; of one made: the text, the maps returned, and the
\* variables looked up in them with the types they gave
IdleClass == [pc |-> "idle", fileContent |-> NoText, classAnalysis |-> NoAnalysis,
              usedVariables |-> <<>>, referencedTypes |-> <<>>]

\* saveTestResultsToDatabase of a call: not reached ("idle"), to be reached when the call
\* has replaced the store ("armed"), in progress, or returned ("done"); runId and files
\* are the entry it adds, database the content it read, saved the entries the calls of
\* this identity have written so far
IdleSave == [pc |-> "idle", files |-> 0, database |-> <<>>, saved |-> 0]

\* database.json: absent until the first save
NoDatabase == [exists |-> FALSE, TotalRuns |-> 0, Tests |-> <<>>]

\* a run command that is not running; of one running: the report its dotnet test writes,
\* the old report files it found, whose report it handed to the ingestion ("none"
\* before that), how it ended, and the commands made so far
IdleRun == [pc |-> "idle", trx |-> MissingReport, oldResultFiles |-> 0, ingested |-> "none",
            outcome |-> "none", calls |-> 0]

\* results.trx: absent, or written by the dotnet test of the run command by
NoTrx == [exists |-> FALSE, by |-> "none", trx |-> MissingReport]

InitIn(workspaces) ==
    /\ fs \in workspaces
    /\ heap = <<>>
    /\ store = <<>>
    /\ deco = <<>>
    /\ ing = [p \in Procs |-> IdleIngest]
    /\ rd = IdleRead
    /\ req = [r \in ReqIds |-> IdleReq]
    /\ exp = IdleExpand
    /\ gen = IdleGenerate
    /\ cls = IdleClass
    /\ sav = [p \in Procs |-> IdleSave]
    /\ db = NoDatabase
    /\ run = [p \in Procs |-> IdleRun]
    /\ disk = NoTrx

\* a POSIX workspace, healthy or with a failing file search
Init == InitIn({1, 4})

(***************************************************************************)
(* TestExplorerProvider: the writers of the store.                         *)
(***************************************************************************)
\* a map with key k set to v (Map.prototype.set)
MapSet(m, k, v) == [x \in DOMAIN m \cup {k} |-> IF x = k THEN v ELSE m[x]]

\* the map holding the records of testResults, later ones replacing earlier ones
RECURSIVE SetAll(_, _)
SetAll(m, testResults) ==
    IF testResults = <<>> THEN m
    ELSE SetAll(MapSet(m, Head(testResults).filePath, Head(testResults)), Tail(testResults))

\* updateTestMethodResults without its clear(): the new records are set over the old map
updateTestMethodResults_NoClear(testFileResults, testResults) ==
    SetAll(testFileResults, testResults)

\* updateTestMethodResults with a merge: a file the store holds keeps its methods and
\* counts, and the new run's are added to them
updateTestMethodResults_Accumulate(testFileResults, testResults) ==
    SetAll(<<>>, [i \in 1..Len(testResults) |->
        LET new == testResults[i]
        IN  IF new.filePath \in DOMAIN testFileResults
            THEN LET old == testFileResults[new.filePath]
                 IN  [new EXCEPT !.methods = old.methods \o @,
                                 !.counts = [passed |-> old.counts.passed + @.passed,
                                             failed |-> old.counts.failed + @.failed],
                                 !.state = IF old.state = "fail" THEN "fail" ELSE @]
            ELSE new])

\* updateTestMethodResults: testFileResults.clear(), then one set per result
updateTestMethodResults(testFileResults, testResults) ==
    SetAll(<<>>, testResults)

\* updateTestState: a record is created for a new path, else its state is overwritten,
\* and its counts when counts are given (counts = NoCounts when the argument is left out)
NoCounts == [passed |-> -1, failed |-> -1]

updateTestState(testFileResults, filePath, state, counts) ==
    IF filePath \notin DOMAIN testFileResults
    THEN MapSet(testFileResults, filePath,
                [filePath |-> filePath, state |-> state,
                 counts |-> IF counts = NoCounts THEN [passed |-> 0, failed |-> 0] ELSE counts,
                 methods |-> <<>>])
    ELSE [testFileResults EXCEPT ![filePath] =
                [@ EXCEPT !.state = state,
                          !.counts = IF counts = NoCounts THEN @ ELSE counts]]

\* TestResultDecorationProvider.updateState, once per file result, in order
RECURSIVE updateStates(_, _)
updateStates(testFileStatus, testResults) ==
    IF testResults = <<>> THEN testFileStatus
    ELSE updateStates(MapSet(testFileStatus, Head(testResults).filePath, Head(testResults).state),
                      Tail(testResults))

(***************************************************************************)
(* Publication.  The method records of fileTestResults are private to the  *)
(* call until updateTestMethodResults hands them to the provider; they get *)
(* their identity (an unused object id) at that moment, file by file in    *)
(* insertion order.                                                        *)
(***************************************************************************)
\* the records of the new run put where those of the last run are: the ids 1 to n,
\* whether in use or not
FreshIds_Reuse(used, n) == [i \in 1..n |-> i]

\* the n smallest object ids outside used, in increasing order
RECURSIVE FreshIds(_, _)
FreshIds(used, n) ==
    IF n = 0 THEN <<>>
    ELSE LET id == CHOOSE i \in 1..(Cardinality(used) + 1) :
                        i \notin used /\ \A j \in 1..(i - 1) : j \in used
         IN  <<id>> \o FreshIds(used \cup {id}, n - 1)

RECURSIVE MethodsBefore(_, _)
MethodsBefore(fileTestResults, k) ==
    IF k <= 1 THEN 0
    ELSE Len(fileTestResults[k - 1].methods) + MethodsBefore(fileTestResults, k - 1)

\* the method records of fileTestResults, file by file
NewObjects(fileTestResults) ==
    Flatten([k \in 1..Len(fileTestResults) |-> fileTestResults[k].methods])

\* Array.from(fileTestResults.values()), the methods replaced by their object ids
Published(ids, fileTestResults) ==
    [k \in 1..Len(fileTestResults) |->
        [fileTestResults[k] EXCEPT !.methods =
            [j \in 1..Len(@) |-> ids[MethodsBefore(fileTestResults, k) + j]]]]

\* the objects a store refers to
StoreObjects(s) == UNION {Range(s[f].methods) : f \in DOMAIN s}

\* the objects the calls of getReferencedFilesForMethod in progress hold
HeldObjects(rq) == {rq[r].target : r \in {x \in DOMAIN rq : rq[x].pc # "idle"}}

\* a map restricted to the keys in keep
Restrict(m, keep) == [x \in DOMAIN m \cap keep |-> m[x]]

\* a file record with its method objects read from the heap
Deref(h, fileResult) ==
    [fileResult EXCEPT !.methods = [j \in 1..Len(@) |-> h[@[j]]]]

\* the content of a store: every file record with its method records
Content(h, s) == [f \in DOMAIN s |-> Deref(h, s[f])]

(***************************************************************************)
(* parseResultsAndUpdateDecorations.  It awaits the read of the report,    *)
(* then one findFiles per entry; everything after the last entry (the      *)
(* replacement of the store, the decorations) runs without an await.       *)
(***************************************************************************)
\* where a call that is not in progress stands: never made ("idle"), returned at one of
\* its checks ("skipped"), ended in its catch ("failed"), or ran to its end ("done")
Returned == {"idle", "skipped", "failed", "done"}

Ended(how) == [IdleIngest EXCEPT !.pc = how]

\* the call: the arguments are bound
IngestBegin(p, trx) ==
    /\ ing[p].pc \in Returned
    /\ ing' = [ing EXCEPT ![p] = [pc |-> "read", trx |-> trx, i |-> 1, fileTestResults |-> <<>>]]
    /\ UNCHANGED <<fs, heap, store, deco, rd, req, exp, gen, cls, sav, db, run, disk>>

\* the end of the loop: updateTestMethodResults(testResults), then updateState per file
Commit(p, fileTestResults) ==
    LET \* the objects that outlive the replacement: those a request in progress holds and
        \* those the store keeps (none, the map being cleared)
        kept == HeldObjects(req) \cup StoreObjects(updateTestMethodResults(store, <<>>))
        objects == NewObjects(fileTestResults)
        ids == FreshIds(kept, Len(objects))
        testResults == Published(ids, fileTestResults)
        newStore == updateTestMethodResults(store, testResults)
        live == StoreObjects(newStore) \cup HeldObjects(req)
        new(o) == CHOOSE n \in 1..Len(ids) : ids[n] = o
    IN  /\ store' = newStore
        /\ heap' = [o \in live |-> IF o \in Range(ids) THEN objects[new(o)] ELSE heap[o]]
        /\ deco' = updateStates(deco, testResults)
        /\ ing' = [ing EXCEPT ![p] = Ended("done")]
        /\ sav' = [sav EXCEPT ![p] = IF @.pc = "armed"
                                     THEN [@ EXCEPT !.pc = "root", !.files = Len(testResults)]
                                     ELSE @]

\* the call returns before the end of its loop: at a check, or from its catch
Stop(p, how) ==
    /\ ing' = [ing EXCEPT ![p] = Ended(how)]
    /\ sav' = [sav EXCEPT ![p] = IF @.pc = "armed" THEN [@ EXCEPT !.pc = "idle"] ELSE @]
    /\ UNCHANGED <<heap, store, deco>>

\* existsSync, readFile, parseXml and the check of the two sections
IngestRead(p) ==
    /\ ing[p].pc = "read"
    /\ LET trx == ing[p].trx
       IN  IF ~trx.exists \/ ~ReportUsable(trx)
           THEN Stop(p, "skipped")
           ELSE IF UnitTestResultsOf(trx) = <<>>
           THEN Commit(p, <<>>)
           ELSE /\ ing' = [ing EXCEPT ![p].pc = "loop"]
                /\ UNCHANGED <<heap, store, deco, sav>>
    /\ UNCHANGED <<fs, rd, req, exp, gen, cls, db, run, disk>>

\* one iteration of the loop; a findFiles that throws ends the call in its catch
IngestEntry(p) ==
    /\ ing[p].pc = "loop"
    /\ LET trx == ing[p].trx
           results == UnitTestResultsOf(trx)
           defs == TestDefinitionsOf(trx)
           testResult == results[ing[p].i]
           next == ProcessEntry(Env, defs, ing[p].fileTestResults, testResult)
       IN  IF EntrySearches(defs, testResult) /\ Env.searchFails
           THEN Stop(p, "failed")
           ELSE IF ing[p].i = Len(results)
           THEN Commit(p, next)
           ELSE /\ ing' = [ing EXCEPT ![p].i = @ + 1, ![p].fileTestResults = next]
                /\ UNCHANGED <<heap, store, deco, sav>>
    /\ UNCHANGED <<fs, rd, req, exp, gen, cls, db, run, disk>>

(***************************************************************************)
(* updateTestState, the provider's file-level setter.                      *)
(***************************************************************************)
CountsArgs == {NoCounts, [passed |-> 1, failed |-> 0]}

UpdateTestState(filePath, state, counts) ==
    /\ store' = updateTestState(store, filePath, state, counts)
    /\ UNCHANGED <<fs, heap, deco, ing, rd, req, exp, gen, cls, sav, db, run, disk>>

(***************************************************************************)
(* The readers of the store.                                               *)
(***************************************************************************)
Folders == <<"Controllers", "Services">>

S_wControllers == <<"\\","C","o","n","t","r","o","l","l","e","r","s","\\">>
S_wServices == <<"\\","S","e","r","v","i","c","e","s","\\">>
S_wService == <<"\\","S","e","r","v","i","c","e","\\">>

\* path.basename(filePath, '.cs').replace(/Tests$/, '')
BaseFileName(p) ==
    LET b == Basename(p)
        stem == IF EndsWith(b, S_cs) /\ Len(b) > Len(S_cs) THEN SubSeq(b, 1, Len(b) - Len(S_cs)) ELSE b
    IN  IF EndsWith(stem, S_Tests) THEN SubSeq(stem, 1, Len(stem) - Len(S_Tests)) ELSE stem

\* TestExplorerProvider.categorizeTestFile; path.sep is \ on Windows and / elsewhere
categorizeTestFile(env, p) ==
    IF (env.windows /\ Includes(p, S_wControllers)) \/ Includes(p, S_Controllers) THEN "Controllers"
    ELSE IF \/ (env.windows /\ (Includes(p, S_wServices) \/ Includes(p, S_wService)))
            \/ Includes(p, S_Services) \/ Includes(p, S_Service) THEN "Services"
    ELSE IF Includes(BaseFileName(p), S_Controller) THEN "Controllers"
    ELSE IF Includes(BaseFileName(p), S_ServiceWord) THEN "Services"
    ELSE "Controllers"

\* the files getTestFilesForCategory lists (none when findFiles throws: it is caught)
CategoryFiles(env, categoryName) ==
    IF env.searchFails THEN <<>>
    ELSE SelectSeq(FindTestFiles(env), LAMBDA p : categorizeTestFile(env, p) = categoryName)

RECURSIVE SumCounts(_, _, _)
SumCounts(s, files, field) ==
    IF files = <<>> THEN 0
    ELSE (IF Head(files) \in DOMAIN s
             /\ (s[Head(files)].counts.passed > 0 \/ s[Head(files)].counts.failed > 0)
          THEN s[Head(files)].counts[field] ELSE 0)
         + SumCounts(s, Tail(files), field)

\* one iteration of createFolderNodes: the node of a folder, <<>> when it lists no file
FolderNode(env, s, folderName) ==
    LET testFiles == CategoryFiles(env, folderName)
        totalPassed == SumCounts(s, testFiles, "passed")
        totalFailed == SumCounts(s, testFiles, "failed")
        hasTests == \E i \in 1..Len(testFiles) :
                        /\ testFiles[i] \in DOMAIN s
                        /\ (s[testFiles[i]].counts.passed > 0 \/ s[testFiles[i]].counts.failed > 0)
        hasFailures == \E i \in 1..Len(testFiles) :
                        testFiles[i] \in DOMAIN s /\ s[testFiles[i]].state = "fail"
    IN  IF testFiles = <<>> THEN <<>>
        ELSE <<[folder |-> folderName,
                icon |-> IF hasTests THEN (IF hasFailures THEN "fail" ELSE "pass") ELSE "none",
                shown |-> IF hasTests THEN totalPassed + totalFailed ELSE Len(testFiles),
                counts |-> [passed |-> totalPassed, failed |-> totalFailed]]>>

\* createFolderNodes on one store: what a root-level getChildren that met no
\* replacement of the store returns
FolderNodes(env, s) == FolderNode(env, s, Folders[1]) \o FolderNode(env, s, Folders[2])

\* getChildren(undefined): createFolderNodes awaits getTestFilesForCategory once per
\* folder and reads the store after each await
ReadFolder ==
    /\ rd.pc < Len(Folders)
    /\ rd' = [pc |-> rd.pc + 1,
              nodes |-> rd.nodes \o FolderNode(Env, store, Folders[rd.pc + 1]),
              views |-> Append(rd.views, FolderNodes(Env, store))]
    /\ UNCHANGED <<fs, heap, store, deco, ing, req, exp, gen, cls, sav, db, run, disk>>

\* the folder nodes are returned to the tree view
ReadReturn ==
    /\ rd.pc = Len(Folders)
    /\ rd' = IdleRead
    /\ UNCHANGED <<fs, heap, store, deco, ing, req, exp, gen, cls, sav, db, run, disk>>

(***************************************************************************)
(* Spec: ingestions, one after the other.                                  *)
(***************************************************************************)
Ingest(procs, reports) ==
    \/ \E p \in procs, trx \in reports : IngestBegin(p, trx)
    \/ \E p \in procs : IngestRead(p)
    \/ \E p \in procs : IngestEntry(p)

Next == Ingest(Solo, Reports)

Spec == Init /\ [][Next]_vars

\* the store a single ingestion of trx builds in workspace env, as content
StoreOfReport(env, trx) ==
    SetAll(<<>>, RunLoop(env, TestDefinitionsOf(trx), UnitTestResultsOf(trx), <<>>))

\* the step in which call p replaces the store
Commits(p) == ing[p].pc \in {"read", "loop"} /\ ing'[p].pc = "done"

Malformed(trx) == ~trx.exists \/ ~trx.hasResults \/ ~trx.hasDefs

\* C2: an ingestion whose report is missing, or lacks the Results/UnitTestResult or the
\* TestDefinitions/UnitTest section, is a no-op: every step it takes leaves the Result
\* Store (the map and the method records) as it was, and it ends at its check.
C2_MalformedReportIsNoOp ==
    [][\A p \in Procs :
        (ing[p].pc \notin Returned /\ Malformed(ing[p].trx) /\ ing'[p] # ing[p])
            => (store' = store /\ heap' = heap /\ ing'[p].pc = "skipped")]_vars

\* a call returned at its check while the store held the results of an earlier run
C2_Witness ==
    \E p \in Procs : ing[p].pc = "skipped" /\ store # <<>>

Count(q, Test(_)) == Cardinality({j \in 1..Len(q) : Test(q[j])})

RECURSIVE SumOver(_, _)
SumOver(S, g) ==
    IF S = {} THEN 0
    ELSE LET x == CHOOSE y \in S : TRUE IN g[x] + SumOver(S \ {x}, g)

\* C4 as claimed: in every file record counts.passed + counts.failed is the number of
\* its methods, whatever the outcomes of the report were.
C4_CountsCoverMethods ==
    \A f \in DOMAIN store :
        store[f].counts.passed + store[f].counts.failed = Len(store[f].methods)

\* whether the loop adds a method record for the entry
Resolved(env, trx, testResult) ==
    Len(RunLoop(env, TestDefinitionsOf(trx), <<testResult>>, <<>>)) = 1

\* C4 as amended: after an ingestion, in every file record counts.passed is the number
\* of its methods with outcome Passed and counts.failed the number with outcome Failed;
\* a method with any other outcome is in methods and in neither count.  Store-wide, the
\* methods are as many as the entries resolved to a file, and the counts add up to the
\* resolved entries whose outcome is Passed or Failed.
C4_CountsTallyOutcomes ==
    [][\A p \in Procs : Commits(p) =>
        LET results == UnitTestResultsOf(ing[p].trx)
            methodsOf(f) == Deref(heap', store'[f]).methods
        IN  /\ \A f \in DOMAIN store' :
                /\ store'[f].counts.passed = Count(methodsOf(f), LAMBDA m : m.outcome = S_Passed)
                /\ store'[f].counts.failed = Count(methodsOf(f), LAMBDA m : m.outcome = S_Failed)
            /\ SumOver(DOMAIN store', [f \in DOMAIN store' |-> Len(store'[f].methods)])
                = Count(results, LAMBDA r : Resolved(Env, ing[p].trx, r))
            /\ SumOver(DOMAIN store',
                      [f \in DOMAIN store' |-> store'[f].counts.passed + store'[f].counts.failed])
                = Count(results, LAMBDA r : Resolved(Env, ing[p].trx, r)
                                            /\ r.outcome \in {S_Passed, S_Failed})]_vars

\* an ingestion ended with a file whose methods outnumber its counts, beside counted ones
C4_Witness ==
    /\ \E p \in Procs : ing[p].pc = "done"
    /\ \E f \in DOMAIN store :
            store[f].counts.passed + store[f].counts.failed < Len(store[f].methods)
    /\ \E f \in DOMAIN store : store[f].counts.passed + store[f].counts.failed > 0

\* C5: ingesting a report into a store that holds the result of ingesting that same
\* report once (same workspace) leaves a store of equal content: the same file keys,
\* and per file the same state, counts and method records; nothing accumulates and
\* nothing of the earlier run is left over.
C5_SameReportTwice ==
    [][\A p \in Procs :
        (Commits(p) /\ Content(heap, store) = StoreOfReport(Env, ing[p].trx))
            => Content(heap', store') = Content(heap, store)]_vars

\* the last iteration of an ingestion whose report is the one the store was built from
C5_Witness ==
    \E p \in Procs :
        /\ ing[p].pc = "loop" /\ ing[p].i = Len(ing[p].trx.results)
        /\ Len(ing[p].trx.results) = MaxEntries
        /\ store # <<>>
        /\ \E f \in DOMAIN store : store[f].counts.failed > 0
        /\ Content(heap, store) = StoreOfReport(Env, ing[p].trx)

(***************************************************************************)
(* SpecSetter: ingestions and calls of updateTestState.                    *)
(***************************************************************************)
SetterReports == FullReports({R_OrderPassed, R_OrderFailed})

SetterPaths == {P_OrderTests, P_PayTests}

NextSetter ==
    \/ Ingest(Solo, SetterReports)
    \/ \E filePath \in SetterPaths, state \in {"pass", "fail"}, counts \in CountsArgs :
            UpdateTestState(filePath, state, counts)

SpecSetter == Init /\ [][NextSetter]_vars

\* C3: in every state of the Result Store, after any ingestions and calls of
\* updateTestState, a file record has state fail exactly when its counts.failed is
\* above zero.
C3_FailIffFailedCount ==
    \A f \in DOMAIN store : (store[f].state = "fail") <=> (store[f].counts.failed > 0)

(***************************************************************************)
(* SpecRead: ingestions and root-level reads of the tree.                  *)
(***************************************************************************)
ReadReports == FullReports({R_OrderFailed, R_PayFailed})

NextRead ==
    \/ Ingest(Solo, ReadReports)
    \/ ReadFolder
    \/ ReadReturn

SpecRead == Init /\ [][NextRead]_vars

\* C1 as claimed: what a root-level getChildren returns is what one store gives, the
\* one before or the one after any replacement, never a combination of two.
C1_ReadSeesOneStore ==
    rd.pc = Len(Folders) => \E k \in 1..Len(rd.views) : rd.nodes = rd.views[k]

\* C1 as amended: the replacement of the store is one step.  Every step of an
\* ingestion either leaves the store as it was or replaces it with the complete result
\* of its report, so each read between two awaits (one folder of the root level, the
\* methods of a file) sees the whole store of one run; a root-level getChildren reads
\* once per folder and may combine the folders of two runs.
C1_StoreReplacedWhole ==
    [][\A p \in Procs : ing'[p] # ing[p] =>
            \/ store' = store /\ heap' = heap
            \/ /\ Commits(p)
               /\ Content(heap', store') = StoreOfReport(Env, ing[p].trx)]_vars

\* the store was replaced between the two folder reads of one getChildren, which yet
\* holds one folder's node from the store it read first
C1_Witness ==
    /\ rd.pc = 1
    /\ rd.nodes # <<>>
    /\ store # <<>>
    /\ \E p \in Procs : ing[p].pc = "done"
    /\ rd.views[1] # FolderNodes(Env, store)

(***************************************************************************)
(* The Method Reference Resolver.  A test file's text is modelled by what  *)
(* the regular expressions of the analysis find in it: its field           *)
(* declarations in textual order (type and name) and, per test method, the *)
(* identifiers its body uses before a dot, and its assignments             *)
(* "x = new T(" in textual order.  A declaration has one of three forms:   *)
(* "private readonly T x;", "private T x;" or "T x;".  The texts of the    *)
(* workspaces have no constructor with parameters and no assignment of a   *)
(* new object.                                                             *)
(***************************************************************************)
S_MockLt == <<"M","o","c","k","<">>
StopWords == {S_Test, <<"S","h","o","u","l","d">>, <<"W","h","e","n">>, <<"T","h","e","n">>,
              <<"G","i","v","e","n">>, <<"A","s","y","n","c">>}

\* fs.promises.readFile(testFilePath) in a workspace whose test files can be read
TestFileText(env, testFilePath) ==
    IF Basename(testFilePath) = Basename(P_OrderTests)
    THEN [fields |-> <<[form |-> "private readonly", type |-> T_Order, name |-> V_order],
                       [form |-> "private readonly", type |-> T_MockIPay, name |-> V_mockPay]>>,
          news |-> <<>>,
          methods |-> IF env.text = 1
                      THEN <<[name |-> M_Creates, uses |-> <<V_order, V_Assert, V_order>>]>>
                      ELSE <<>>]
    ELSE IF Basename(testFilePath) = Basename(P_PayTests)
    THEN [fields |-> <<>>,
          news |-> <<>>,
          methods |-> IF env.text = 1
                      THEN <<[name |-> M_Rejects, uses |-> <<V_Assert>>]>>
                      ELSE <<>>]
    ELSE IF Basename(testFilePath) = Basename(P_PricingTests)
    THEN [fields |-> <<[form |-> "private readonly", type |-> T_MockIPricing, name |-> V_mockPricing]>>,
          news |-> <<>>,
          methods |-> IF env.text = 1
                      THEN <<[name |-> M_Missing, uses |-> <<V_mockPricing, V_Object>>]>>
                      ELSE <<>>]
    ELSE NoText

\* a Map in insertion order: a sequence of [key, value]
OrdHas(m, k) == \E i \in 1..Len(m) : m[i].key = k
OrdGet(m, k) == IF OrdHas(m, k) THEN m[CHOOSE i \in 1..Len(m) : m[i].key = k].value ELSE <<>>
OrdSet(m, k, v) ==
    IF OrdHas(m, k)
    THEN [i \in 1..Len(m) |-> IF m[i].key = k THEN [key |-> k, value |-> v] ELSE m[i]]
    ELSE Append(m, [key |-> k, value |-> v])

\* the declarations each of the three field patterns matches: the first an optional
\* readonly after private, the second private alone, the third either word optional
FieldPatterns == <<{"private readonly", "private"}, {"private"},
                   {"private readonly", "private", "bare"}>>

\* the matches of one field pattern without the test of fieldTypes.has: a later match
\* replaces the type of the name
RECURSIVE FieldTypes_Overwrite(_, _)
FieldTypes_Overwrite(fields, fieldTypes) ==
    IF fields = <<>> THEN fieldTypes
    ELSE FieldTypes_Overwrite(Tail(fields),
                              OrdSet(fieldTypes, Head(fields).name, Head(fields).type))

\* the matches of one field pattern in textual order: a name keeps the type it has
RECURSIVE FieldTypes(_, _)
FieldTypes(fields, fieldTypes) ==
    IF fields = <<>> THEN fieldTypes
    ELSE FieldTypes(Tail(fields),
                    IF OrdHas(fieldTypes, Head(fields).name) THEN fieldTypes
                    ELSE OrdSet(fieldTypes, Head(fields).name, Head(fields).type))

\* the loop over fieldPatterns, each pattern run over the whole text
RECURSIVE AllFieldPatterns(_, _, _)
AllFieldPatterns(patterns, fields, fieldTypes) ==
    IF patterns = <<>> THEN fieldTypes
    ELSE AllFieldPatterns(Tail(patterns), fields,
            FieldTypes(SelectSeq(fields, LAMBDA f : f.form \in Head(patterns)), fieldTypes))

\* what the mock pattern captures of a declared type: X of Mock<X>, <<>> otherwise
MockedType(type) ==
    IF StartsWith(type, S_MockLt) /\ Len(type) > Len(S_MockLt) + 1 /\ Last(type) = ">"
       /\ type[Len(S_MockLt) + 1] \in Upper
    THEN SubSeq(type, Len(S_MockLt) + 1, Len(type) - 1)
    ELSE <<>>

\* mockName.replace(/^_mock/, '_').replace(/^mock/, '')
ObjectName(mockName) ==
    LET a == IF StartsWith(mockName, S_umock)
             THEN S_u \o SubSeq(mockName, Len(S_umock) + 1, Len(mockName)) ELSE mockName
    IN  IF StartsWith(a, S_mock) THEN SubSeq(a, Len(S_mock) + 1, Len(a)) ELSE a

\* the mock pattern: mockTypes[name] and fieldTypes[objectName] are set to the mocked type
RECURSIVE MockTypes(_, _)
MockTypes(fields, classAnalysis) ==
    IF fields = <<>> THEN classAnalysis
    ELSE LET type == MockedType(Head(fields).type)
         IN  MockTypes(Tail(fields),
                IF type = <<>> THEN classAnalysis
                ELSE [fieldTypes |-> OrdSet(classAnalysis.fieldTypes, ObjectName(Head(fields).name), type),
                      mockTypes |-> OrdSet(classAnalysis.mockTypes, Head(fields).name, type)])

\* the instantiation pattern: fieldTypes[name] is set to the type of every "name = new
\* Type(", in textual order
RECURSIVE Instantiations(_, _)
Instantiations(news, fieldTypes) ==
    IF news = <<>> THEN fieldTypes
    ELSE Instantiations(Tail(news), OrdSet(fieldTypes, Head(news).name, Head(news).type))

analyzeTestClassDependencies(fileContent) ==
    LET declared == MockTypes(fileContent.fields,
                        [fieldTypes |-> AllFieldPatterns(FieldPatterns, fileContent.fields, <<>>),
                         mockTypes |-> <<>>])
    IN  [fieldTypes |-> Instantiations(fileContent.news, declared.fieldTypes),
         mockTypes |-> declared.mockTypes]

\* the method patterns: the method of that name in the text, NoMethod when none matches
NoMethod == [name |-> <<>>, uses |-> <<>>]
MethodBody(fileContent, methodName) ==
    IF \E i \in 1..Len(fileContent.methods) : fileContent.methods[i].name = methodName
    THEN fileContent.methods[CHOOSE i \in 1..Len(fileContent.methods) :
                                    fileContent.methods[i].name = methodName]
    ELSE NoMethod

RECURSIVE Distinct(_, _)
Distinct(q, acc) == IF q = <<>> THEN acc ELSE Distinct(Tail(q), AddOnce(acc, Head(q)))

\* Array.from(variables): the identifiers used, each once, in the order first met
findUsedVariablesInMethod(methodBody) == Distinct(methodBody.uses, <<>>)

\* referencedTypes: the types of the used variables, then every mocked type
RECURSIVE TypesOfVariables(_, _, _)
TypesOfVariables(classAnalysis, usedVariables, referencedTypes) ==
    IF usedVariables = <<>> THEN referencedTypes
    ELSE LET a == OrdGet(classAnalysis.fieldTypes, Head(usedVariables))
             type == IF a # <<>> THEN a ELSE OrdGet(classAnalysis.mockTypes, Head(usedVariables))
         IN  TypesOfVariables(classAnalysis, Tail(usedVariables),
                              IF type # <<>> THEN AddOnce(referencedTypes, type) ELSE referencedTypes)

\* referencedTypes without the loop over mockTypes.values()
ReferencedTypes_OnlyUsed(classAnalysis, usedVariables) ==
    TypesOfVariables(classAnalysis, usedVariables, <<>>)

ReferencedTypes(classAnalysis, usedVariables) ==
    Distinct([i \in 1..Len(classAnalysis.mockTypes) |-> classAnalysis.mockTypes[i].value],
             TypesOfVariables(classAnalysis, usedVariables, <<>>))

\* s.replace(/<.*>/, ''): from the first < to the last > after it
StripGeneric(s) ==
    LET a == IndexOf(s, "<")
        b == LastIndexOf(s, ">")
    IN  IF a > 0 /\ b > a THEN SubSeq(s, 1, a - 1) \o SubSeq(s, b + 1, Len(s)) ELSE s

\* possibleFileNames of findFilesForType
PossibleFileNames(typeName) ==
    LET baseTypeName == IF Len(typeName) > 1 /\ typeName[1] = "I" /\ typeName[2] \in Upper
                        THEN Tail(typeName) ELSE typeName
    IN  <<StripGeneric(typeName) \o S_cs, StripGeneric(baseTypeName) \o S_cs>>

\* methodName.replace(/([A-Z])/g, ' $1').trim().split(/\s+|_/).filter(...)
RECURSIVE SpaceCapitals(_)
SpaceCapitals(s) ==
    IF s = <<>> THEN <<>>
    ELSE (IF Head(s) \in Upper THEN <<" ", Head(s)>>
          ELSE IF Head(s) = "_" THEN <<" ">> ELSE <<Head(s)>>) \o SpaceCapitals(Tail(s))

\* the word filter with word.length >= 3
MethodWords_KeepsThree(methodName) ==
    SelectSeq(Split(SpaceCapitals(methodName), " "),
              LAMBDA word : Len(word) >= 3 /\ word \notin StopWords)

MethodWords(methodName) ==
    SelectSeq(Split(SpaceCapitals(methodName), " "),
              LAMBDA word : Len(word) > 3 /\ word \notin StopWords)

\* the findFiles calls of the analysis, in order: by file name for the types, by word
\* for the fallback
TypeQueries(referencedTypes) ==
    Flatten([i \in 1..Len(referencedTypes) |->
        [j \in 1..2 |-> [by |-> "name", arg |-> PossibleFileNames(referencedTypes[i])[j]]]])

WordQueries(methodName) ==
    [i \in 1..Len(MethodWords(methodName)) |-> [by |-> "word", arg |-> MethodWords(methodName)[i]]]

FindFiles(env, query) ==
    IF query.by = "name" THEN FindByName(env, query.arg) ELSE FindByWord(env, query.arg)

\* the filter without its alreadyAdded test: every file that is neither a test file nor
\* build output is pushed
RECURSIVE Collect_NoDedup(_, _)
Collect_NoDedup(files, referencedFiles) ==
    IF files = <<>> THEN referencedFiles
    ELSE LET fsPath == Head(files)
             isTestFile == Includes(fsPath, S_Tests) \/ Includes(fsPath, S_Test)
             isBinObj == Includes(fsPath, S_bin) \/ Includes(fsPath, S_obj)
         IN  Collect_NoDedup(Tail(files),
                     IF ~isTestFile /\ ~isBinObj
                     THEN Append(referencedFiles, fsPath) ELSE referencedFiles)

\* the filter of findFilesForType and fallbackFileSearch over the files of one search
RECURSIVE Collect(_, _)
Collect(files, referencedFiles) ==
    IF files = <<>> THEN referencedFiles
    ELSE LET fsPath == Head(files)
             isTestFile == Includes(fsPath, S_Tests) \/ Includes(fsPath, S_Test)
             isBinObj == Includes(fsPath, S_bin) \/ Includes(fsPath, S_obj)
             alreadyAdded == fsPath \in Range(referencedFiles)
         IN  Collect(Tail(files),
                     IF ~isTestFile /\ ~isBinObj /\ ~alreadyAdded
                     THEN Append(referencedFiles, fsPath) ELSE referencedFiles)

\* the guard of getReferencedFilesForMethod: nothing cached.  The variant analyses on
\* every call.
CacheMiss_Always(referencedFiles) == TRUE

CacheMiss(referencedFiles) == referencedFiles = <<>>

\* methodResult.referencedFiles = referencedFiles.  The variant adds to what is there.
StoreReferencedFiles_Append(old, referencedFiles) == old \o referencedFiles

StoreReferencedFiles(old, referencedFiles) == referencedFiles

\* how analyzeTestMethodReferences ends: an error inside it is caught and [] returned.
\* The variant has no catch.
Failures == {"unreadable", "searchfailed"}

AnalysisEnd_NoCatch(how, referencedFiles) ==
    [threw |-> how \in Failures, files |-> referencedFiles]

AnalysisEnd(how, referencedFiles) ==
    [threw |-> FALSE, files |-> IF how \in Failures THEN <<>> ELSE referencedFiles]

\* analyzeTestMethodReferences run from its first line to its last in one workspace
RECURSIVE RunQueries(_, _, _)
RunQueries(env, todo, referencedFiles) ==
    IF todo = <<>> THEN referencedFiles
    ELSE RunQueries(env, Tail(todo), Collect(FindFiles(env, Head(todo)), referencedFiles))

analyzeTestMethodReferences(env, methodName, testFilePath) ==
    LET fileContent == TestFileText(env, testFilePath)
        methodBody == MethodBody(fileContent, methodName)
        types == ReferencedTypes(analyzeTestClassDependencies(fileContent),
                                 findUsedVariablesInMethod(methodBody))
        typed == RunQueries(env, TypeQueries(types), <<>>)
        fallback == IF typed = <<>> THEN WordQueries(methodName) ELSE <<>>
    IN  IF env.unreadable THEN AnalysisEnd("unreadable", <<>>).files
        ELSE IF methodBody = NoMethod THEN <<>>
        ELSE IF env.searchFails /\ TypeQueries(types) \o fallback # <<>>
        THEN AnalysisEnd("searchfailed", <<>>).files
        ELSE RunQueries(env, fallback, typed)

(***************************************************************************)
(* getReferencedFilesForMethod.  It awaits analyzeTestMethodReferences,    *)
(* which awaits the read of the test file and then one findFiles per       *)
(* query; the assignment to methodResult.referencedFiles and the return    *)
(* follow the last await without another.                                  *)
(***************************************************************************)
\* the key of the file record that lists object o
FileOf(s, o) == CHOOSE f \in DOMAIN s : o \in Range(s[f].methods)

\* the records getFailedMethodsForFile hands to the tree
FailedObjects == {o \in StoreObjects(store) : heap[o].outcome = S_Failed}

\* the call, on a failed method of the tree: the guard reads the record
ReqCall(r, o) ==
    /\ req[r].pc = "idle"
    /\ o \in FailedObjects
    /\ LET list == heap[o].referencedFiles
           called == [IdleReq EXCEPT !.target = o, !.testFilePath = store[FileOf(store, o)].filePath,
                                     !.sawList = list]
       IN  IF CacheMiss(list)
           THEN req' = [req EXCEPT ![r] = [called EXCEPT !.pc = "read"]]
           ELSE req' = [req EXCEPT ![r] = [called EXCEPT !.pc = "done", !.how = "cached",
                                                         !.returned = list]]
    /\ UNCHANGED <<fs, heap, store, deco, ing, rd, exp, gen, cls, sav, db, run, disk>>

\* the analysis goes on to its next await
Continue(r, phase, todo, referencedFiles) ==
    /\ req' = [req EXCEPT ![r] = [@ EXCEPT !.pc = "lookup", !.phase = phase, !.todo = todo,
                                           !.referencedFiles = referencedFiles]]
    /\ UNCHANGED heap

\* the analysis ends; its list is stored on the record and returned
Finish(r, how, referencedFiles) ==
    LET o == req[r].target
        end == AnalysisEnd(how, referencedFiles)
        new == StoreReferencedFiles(heap[o].referencedFiles, end.files)
        ended == [req[r] EXCEPT !.pc = "done", !.how = how, !.phase = "none", !.todo = <<>>,
                                !.referencedFiles = <<>>]
    IN  IF end.threw
        THEN /\ req' = [req EXCEPT ![r] = [ended EXCEPT !.threw = TRUE]]
             /\ UNCHANGED heap
        ELSE /\ req' = [req EXCEPT ![r] = [ended EXCEPT !.wrote = TRUE, !.returned = new]]
             /\ heap' = [heap EXCEPT ![o].referencedFiles = new]

\* readFile, analyzeTestClassDependencies, the method patterns, the referenced types
ReqRead(r) ==
    /\ req[r].pc = "read"
    /\ LET methodName == heap[req[r].target].methodName
           fileContent == TestFileText(Env, req[r].testFilePath)
           methodBody == MethodBody(fileContent, methodName)
           types == ReferencedTypes(analyzeTestClassDependencies(fileContent),
                                    findUsedVariablesInMethod(methodBody))
       IN  IF Env.unreadable THEN Finish(r, "unreadable", <<>>)
           ELSE IF methodBody = NoMethod THEN Finish(r, "nomethod", <<>>)
           ELSE IF types # <<>> THEN Continue(r, "types", TypeQueries(types), <<>>)
           ELSE IF WordQueries(methodName) # <<>>
           THEN Continue(r, "fallback", WordQueries(methodName), <<>>)
           ELSE Finish(r, "analyzed", <<>>)
    /\ UNCHANGED <<fs, store, deco, ing, rd, exp, gen, cls, sav, db, run, disk>>

\* one findFiles of findFilesForType or fallbackFileSearch and the filter of its files
ReqLookup(r) ==
    /\ req[r].pc = "lookup"
    /\ LET methodName == heap[req[r].target].methodName
           rest == Tail(req[r].todo)
           found == Collect(FindFiles(Env, Head(req[r].todo)), req[r].referencedFiles)
       IN  IF Env.searchFails THEN Finish(r, "searchfailed", req[r].referencedFiles)
           ELSE IF rest # <<>> THEN Continue(r, req[r].phase, rest, found)
           ELSE IF req[r].phase = "types" /\ found = <<>> /\ WordQueries(methodName) # <<>>
           THEN Continue(r, "fallback", WordQueries(methodName), <<>>)
           ELSE Finish(r, "analyzed", found)
    /\ UNCHANGED <<fs, store, deco, ing, rd, exp, gen, cls, sav, db, run, disk>>

\* the tree takes what the call returned; a record nothing refers to any more is dropped
ReqReturn(r) ==
    /\ req[r].pc = "done"
    /\ req' = [req EXCEPT ![r] = IdleReq]
    /\ heap' = Restrict(heap, StoreObjects(store) \cup HeldObjects(req'))
    /\ UNCHANGED <<fs, store, deco, ing, rd, exp, gen, cls, sav, db, run, disk>>

\* the workspace changes under the running extension: files are created or deleted, a
\* test file is edited or becomes unreadable, the file search starts or stops failing.
\* moves are the changes <<from, to>> a specification lets happen
FsChange(moves, to) ==
    /\ <<fs, to>> \in moves
    /\ fs' = to
    /\ req' = [r \in ReqIds |->
                IF req[r].pc # "idle" THEN [req[r] EXCEPT !.moved = TRUE] ELSE req[r]]
    /\ UNCHANGED <<heap, store, deco, ing, rd, exp, gen, cls, sav, db, run, disk>>

FullReport(results) == [exists |-> TRUE, hasResults |-> TRUE, hasDefs |-> TRUE, results |-> results]

Resolve(reports, requests, moves) ==
    \/ Ingest(Solo, reports)
    \/ \E r \in requests, o \in DOMAIN heap : ReqCall(r, o)
    \/ \E r \in requests : ReqRead(r)
    \/ \E r \in requests : ReqLookup(r)
    \/ \E r \in requests : ReqReturn(r)
    \/ \E to \in FsIds : FsChange(moves, to)

(***************************************************************************)
(* SpecResolve: ingestions of the report of a failed test and overlapping  *)
(* requests for the referenced files of its method, in a POSIX workspace   *)
(* in which production files get deleted and the test file gets edited.    *)
(***************************************************************************)
ResolveReports == {FullReport(<<R_OrderFailed>>)}

ResolveMoves == {<<1, 2>>, <<1, 5>>, <<2, 5>>}

NextResolve == Resolve(ResolveReports, ReqIds, ResolveMoves)

SpecResolve == InitIn({1}) /\ [][NextResolve]_vars

(***************************************************************************)
(* SpecFailing: one request at a time in a POSIX workspace in which the    *)
(* read of the test file and the file search come to fail and recover, and *)
(* the test files are edited.                                              *)
(***************************************************************************)
FailingReports == {FullReport(<<R_OrderFailed>>), FullReport(<<R_PayFailed, R_OrderFailed>>)}

FailingMoves == {<<a, b>> : a, b \in {1, 3, 4, 5}}

NextFailing == Resolve(FailingReports, {"r1"}, FailingMoves)

SpecFailing == InitIn({1}) /\ [][NextFailing]_vars

(***************************************************************************)
(* SpecPlatforms: one request at a time in a POSIX or a Windows workspace;  *)
(* in the POSIX one deleted production files are restored.                 *)
(***************************************************************************)
NextPlatforms == Resolve(FailingReports, {"r1"}, {<<2, 1>>})

SpecPlatforms == InitIn({1, 2, 6}) /\ [][NextPlatforms]_vars

\* the requests that have ended and whose result the tree has not taken yet
Done == {r \in ReqIds : req[r].pc = "done"}

\* C6: once a record's referencedFiles is non-empty, every later request on the record
\* returns that same list without reading or searching, until the run is replaced.
\* Stated on the requests served from the non-empty field: as long as such a request's
\* result stands and the record is in the store, the record holds the list it returned
\* (so the next request returns the same list, from the field).
C6_CachedListStays ==
    \A r \in Done :
        (req[r].how = "cached" /\ req[r].target \in StoreObjects(store))
            => heap[req[r].target].referencedFiles = req[r].returned

\* a request was served from a non-empty field, without a read or a search
C6_Witness ==
    \E r \in Done : req[r].how = "cached" /\ req[r].returned # <<>> /\ ~req[r].wrote

\* C7 as claimed: within one run a record's referencedFiles is written once; no two
\* requests on the same record both write it.
C7_WrittenOnce ==
    \A r1, r2 \in Done :
        (r1 # r2 /\ req[r1].target = req[r2].target /\ req[r1].wrote) => ~req[r2].wrote

\* C7 as amended: a request writes a record's referencedFiles only if it found the
\* field empty when it was called; a request called on a non-empty field returns the
\* stored list and writes nothing.  (The field can be written more than once in a run:
\* by two requests that overlap while it is empty, and again after an empty result,
\* which is stored but not kept as a cache.)
C7_WritesOnlyFromEmpty ==
    \A r \in ReqIds :
        /\ (req[r].pc \in {"read", "lookup"} \/ req[r].wrote) => req[r].sawList = <<>>
        /\ req[r].how = "cached" =>
                ~req[r].wrote /\ req[r].sawList # <<>> /\ req[r].returned = req[r].sawList

\* a request wrote a non-empty list and a request called after it was served that list
C7_Witness ==
    \E r1, r2 \in Done :
        /\ req[r1].target = req[r2].target
        /\ req[r1].wrote /\ req[r1].returned # <<>>
        /\ req[r2].how = "cached" /\ req[r2].returned = req[r1].returned

\* C8: when two requests on the same record both analyse (each found the field empty)
\* and the workspace does not change from the call of either until both have ended,
\* both return equal lists, and the list left on the record is that list, which is
\* what a single request stores in that workspace.
C8_OverlappingRequestsAgree ==
    \A r1, r2 \in Done :
        (/\ r1 # r2 /\ req[r1].target = req[r2].target
         /\ req[r1].wrote /\ req[r2].wrote
         /\ ~req[r1].moved /\ ~req[r2].moved)
        => LET o == req[r1].target
           IN  /\ req[r1].returned = req[r2].returned
               /\ heap[o].referencedFiles = req[r1].returned
               /\ req[r1].returned =
                    analyzeTestMethodReferences(Env, heap[o].methodName, req[r1].testFilePath)

\* two requests on one record have both analysed and written a non-empty list, in a
\* workspace that stood still: the second was called before the first had written
C8_Witness ==
    \E r1, r2 \in Done :
        /\ r1 # r2 /\ req[r1].target = req[r2].target
        /\ req[r1].wrote /\ req[r2].wrote
        /\ ~req[r1].moved /\ ~req[r2].moved
        /\ Len(req[r2].returned) > 1

\* C9: the resolver never raises.  Whatever fails inside analyzeTestMethodReferences
\* (the test file cannot be read, the method is not found in it, a file search fails),
\* the request ends normally, and the list it stores and returns is empty.
C9_ResolverNeverRaises ==
    \A r \in ReqIds :
        /\ ~req[r].threw
        /\ (req[r].pc = "done" /\ req[r].how \in {"unreadable", "nomethod", "searchfailed"})
                => req[r].wrote /\ req[r].returned = <<>>

\* a request ended after a file search failed under it
C9_Witness ==
    \E r \in Done : req[r].how = "searchfailed" /\ req[r].wrote /\ ~req[r].threw

\* the directories above a file, / and \ both separating
Directories(fsPath) ==
    LET parts == Flatten([i \in 1..Len(Split(fsPath, "/")) |-> Split(Split(fsPath, "/")[i], "\\")])
    IN  {parts[i] : i \in 1..(Len(parts) - 1)}

UnderBuildOutput(fsPath) ==
    Directories(fsPath) \cap {<<"b","i","n">>, <<"o","b","j">>} # {}

\* C10: no path a request returns contains Test or lies under a bin or obj directory,
\* whether the type search or the keyword fallback found it.
C10_NoTestNoBuildOutput ==
    \A r \in Done : \A i \in 1..Len(req[r].returned) :
        ~Includes(req[r].returned[i], S_Test) /\ ~UnderBuildOutput(req[r].returned[i])

\* the keyword fallback returned a production file from a workspace that also holds a
\* test-data file and a build-output file of matching names
C10_Witness ==
    \E r \in Done :
        /\ req[r].how = "analyzed" /\ req[r].returned = <<P_Invalid>>
        /\ P_InvalidTest \in Range(Env.files) /\ P_ObjPay \in Range(Env.files)

(***************************************************************************)
(* SpecFallback: one request at a time in the project of the pricing       *)
(* service, in which the files of the mocked engine get deleted and        *)
(* restored and the file search comes to fail and recovers.                *)
(***************************************************************************)
FallbackReports == {FullReport(<<R_MissingFailed>>), FullReport(<<R_OrderFailed, R_MissingFailed>>)}

FallbackMoves == {<<7, 8>>, <<8, 7>>, <<7, 9>>, <<9, 7>>, <<8, 9>>, <<9, 8>>}

NextFallback == Resolve(FallbackReports, {"r1"}, FallbackMoves)

SpecFallback == InitIn({7}) /\ [][NextFallback]_vars

NoDuplicates(q) == \A i, j \in 1..Len(q) : q[i] = q[j] => i = j

IsPrefix(a, b) == Len(a) <= Len(b) /\ SubSeq(b, 1, Len(a)) = a

\* the place of the first occurrence of e in q
PositionIn(q, e) == CHOOSE i \in 1..Len(q) : q[i] = e /\ \A j \in 1..(i - 1) : q[j] # e

\* the step in which request r makes one findFiles call and filters what it found
Looks(r) == req[r].pc = "lookup" /\ (req'[r].pc = "done" \/ req'[r].todo # req[r].todo)

\* the list of request r after the step: the one it goes on with or the one it returns
ListAfter(r) == IF req'[r].pc = "done" THEN req'[r].returned ELSE req'[r].referencedFiles

\* C11: the list a request builds never holds a path twice, whichever type, spelling
\* or fallback word found the path again, and it is in discovery order: every search
\* leaves the paths accepted so far in place and adds, after them, paths that search
\* found and that were not in the list, in the order the search reported them.  The
\* list returned is the list left on the record.
C11_NoPathTwiceInDiscoveryOrder ==
    [][\A r \in ReqIds : Looks(r) =>
          LET old == req[r].referencedFiles
              new == ListAfter(r)
              files == FindFiles(Env, Head(req[r].todo))
              added == SubSeq(new, Len(old) + 1, Len(new))
          IN  /\ NoDuplicates(new)
              /\ req'[r].pc = "done" => heap'[req[r].target].referencedFiles = new
              /\ req'[r].how # "searchfailed" =>
                    /\ IsPrefix(old, new)
                    /\ Range(added) \subseteq Range(files) \ Range(old)
                    /\ \A i, j \in 1..Len(added) :
                          i < j => PositionIn(files, added[i]) < PositionIn(files, added[j])]_vars

\* the fallback returned two files, the first of which two of its words had found
C11_Witness ==
    \E r \in Done :
        /\ req[r].how = "analyzed" /\ req[r].returned = <<P_MissingReturn, P_NotFound>>
        /\ \E i, j \in 1..Len(WordQueries(M_Missing)) :
              /\ i # j
              /\ P_MissingReturn \in Range(FindFiles(Env, WordQueries(M_Missing)[i]))
              /\ P_MissingReturn \in Range(FindFiles(Env, WordQueries(M_Missing)[j]))

\* the method a request resolves
MethodOf(r) == heap[req[r].target].methodName

\* the step in which the analysis of request r, having read the test file and located
\* the method body, finds no candidate type at all
NoCandidateType(r) ==
    /\ req[r].pc = "read" /\ req'[r].pc # "read"
    /\ req'[r].how \notin {"unreadable", "nomethod"}
    /\ ~(req'[r].pc = "lookup" /\ req'[r].phase = "types")

\* the step in which the analysis of request r makes the last search of its type-based
\* resolution: the search of the last spelling of the last type, or one that fails
LastTypeSearch(r) == Looks(r) /\ req[r].phase = "types" /\ req'[r].phase # "types"

\* the files the type-based resolution has collected when that step is over; a search
\* that fails finds nothing
TypedFiles(r) ==
    IF req[r].pc = "read" THEN <<>>
    ELSE IF req'[r].how = "searchfailed" THEN req[r].referencedFiles
    ELSE ListAfter(r)

\* fallbackFileSearch is called in the step (with no word to search for, it returns at once)
FallbackRuns(r) ==
    \/ req'[r].pc = "lookup" /\ req'[r].phase = "fallback"
    \/ /\ req'[r].pc = "done" /\ req'[r].how = "analyzed"
       /\ TypedFiles(r) = <<>> /\ WordQueries(MethodOf(r)) = <<>>

\* C12: for every request whose analysis has located the method body, the keyword
\* fallback runs exactly when the type-based resolution is over with zero files: it
\* runs whenever no file was collected from the candidate types, and it does not run
\* when at least one was.
C12_FallbackIffNoTypedFiles ==
    [][\A r \in ReqIds :
          (NoCandidateType(r) \/ LastTypeSearch(r)) => (FallbackRuns(r) <=> TypedFiles(r) = <<>>)]_vars

\* the fallback is under way after the searches for the candidate types found no file
C12_Witness ==
    \E r \in ReqIds :
        /\ req[r].pc = "lookup" /\ req[r].phase = "fallback"
        /\ req[r].todo = WordQueries(MethodOf(r))
        /\ ReferencedTypes(analyzeTestClassDependencies(TestFileText(Env, req[r].testFilePath)),
                           findUsedVariablesInMethod(
                               MethodBody(TestFileText(Env, req[r].testFilePath), MethodOf(r)))) # <<>>

\* the places of a method name at which a word starts: its first character, every
\* capital letter, every character after an underscore
WordStarts(name) ==
    {i \in 1..Len(name) : name[i] # "_" /\ (i = 1 \/ name[i] \in Upper \/ name[i - 1] = "_")}

\* the word starting at place i: up to the next capital letter or underscore
WordAt(name, i) ==
    LET inside(j) == \A k \in (i + 1)..j : name[k] \notin Upper /\ name[k] # "_"
        end == CHOOSE j \in i..Len(name) : inside(j) /\ (j = Len(name) \/ ~inside(j + 1))
    IN  SubSeq(name, i, end)

\* the places of the words that are searched for, in increasing order
RECURSIVE Ascending(_)
Ascending(S) ==
    IF S = {} THEN <<>>
    ELSE LET m == CHOOSE x \in S : \A y \in S : x <= y IN <<m>> \o Ascending(S \ {m})

SearchedWords(name) ==
    LET at == Ascending({i \in WordStarts(name) :
                            Len(WordAt(name, i)) > 3 /\ WordAt(name, i) \notin StopWords})
    IN  [n \in 1..Len(at) |-> WordAt(name, at[n])]

\* the step in which request r begins its fallback
BeginsFallback(r) ==
    /\ req[r].pc \in {"read", "lookup"} /\ req[r].phase # "fallback"
    /\ req'[r].pc = "lookup" /\ req'[r].phase = "fallback"

\* the words the fallback of request r is about to search for, in order
WordsToSearch(r) == [n \in 1..Len(req'[r].todo) |-> req'[r].todo[n].arg]

W_Return == <<"R","e","t","u","r","n">>
W_NotFound == <<"N","o","t","F","o","u","n","d">>
W_Found == <<"F","o","u","n","d">>
W_Missing == <<"M","i","s","s","i","n","g">>

\* C13 as claimed: for the method Should_Return_NotFound_WhenMissing the fallback
\* searches for exactly the words Return, NotFound and Missing.
C13_ScenarioWords ==
    [][\A r \in ReqIds :
          (BeginsFallback(r) /\ MethodOf(r) = M_Missing)
              => WordsToSearch(r) = <<W_Return, W_NotFound, W_Missing>>]_vars

\* C13 as amended: the words the fallback searches for are the pieces of the method
\* name between underscores and before every capital letter, in order, without the
\* pieces of length 3 or less and without Test, Should, When, Then, Given and Async,
\* each searched as a file name pattern by word; for Should_Return_NotFound_WhenMissing
\* they are Return, Found and Missing (NotFound is two pieces, Not and Found, and Not is
\* too short).
C13_FallbackWords ==
    [][\A r \in ReqIds : BeginsFallback(r) =>
          /\ WordsToSearch(r) = SearchedWords(MethodOf(r))
          /\ \A n \in 1..Len(req'[r].todo) : req'[r].todo[n].by = "word"
          /\ MethodOf(r) = M_Missing => WordsToSearch(r) = <<W_Return, W_Found, W_Missing>>]_vars

\* the fallback of Should_Return_NotFound_WhenMissing has searched for Return and is
\* about to search for Found
C13_Witness ==
    \E r \in ReqIds :
        /\ req[r].pc = "lookup" /\ req[r].phase = "fallback" /\ MethodOf(r) = M_Missing
        /\ Len(req[r].todo) = 2 /\ req[r].todo[1].arg = W_Found

\* the types the test file declares mocks of
DeclaredMocks(fileContent) ==
    {MockedType(fileContent.fields[i].type) : i \in 1..Len(fileContent.fields)} \ {<<>>}

\* the step in which the analysis of request r reads the test file and locates the body
LocatesMethod(r) ==
    /\ req[r].pc = "read" /\ req'[r].pc # "read"
    /\ req'[r].how \notin {"unreadable", "nomethod"}

F_IPricingEngineCs == <<"I","P","r","i","c","i","n","g","E","n","g","i","n","e",".","c","s">>
F_PricingEngineCs == <<"P","r","i","c","i","n","g","E","n","g","i","n","e",".","c","s">>

\* C14: when the analysis has located the method body, the searches it goes on to make
\* include, for every type T of a Mock<T> declaration of the test file, the file names
\* T.cs and, T being an interface name IX, X.cs, whether or not the body uses the mock;
\* for Mock<IPricingEngine> they are IPricingEngine.cs and PricingEngine.cs.
C14_MockTypesAlwaysSearched ==
    [][\A r \in ReqIds : LocatesMethod(r) =>
          LET fileContent == TestFileText(Env, req[r].testFilePath)
              searches == {req'[r].todo[n].arg : n \in {m \in 1..Len(req'[r].todo) : req'[r].todo[m].by = "name"}}
          IN  /\ \A type \in DeclaredMocks(fileContent) :
                    /\ (type \o S_cs) \in searches
                    /\ (type[1] = "I" /\ Len(type) > 1 /\ type[2] \in Upper) => (Tail(type) \o S_cs) \in searches
              /\ <<"I","P","r","i","c","i","n","g","E","n","g","i","n","e">> \in DeclaredMocks(fileContent)
                    => {F_IPricingEngineCs, F_PricingEngineCs} \subseteq searches]_vars

\* the analysis of a method that does not use the mock of its test file is about to
\* search for the files of the mocked type
C14_Witness ==
    \E r \in ReqIds :
        /\ req[r].pc = "lookup" /\ req[r].phase = "types"
        /\ V_mockPay \notin Range(MethodBody(TestFileText(Env, req[r].testFilePath), MethodOf(r)).uses)
        /\ \E m, n \in 1..Len(req[r].todo) :
              req[r].todo[m].arg = Basename(P_IPay) /\ req[r].todo[n].arg = Basename(P_Pay)

\* C19: a file search that fails during a resolution counts as a search that found
\* nothing: the files the resolution had accepted before it are in the list the
\* resolution goes on with or returns.
C19_FailedLookupKeepsAccepted ==
    [][\A r \in ReqIds :
          (Looks(r) /\ req'[r].how = "searchfailed")
              => Range(req[r].referencedFiles) \subseteq Range(ListAfter(r))]_vars

\* a resolution that has accepted a file is about to make a search that fails
C19_Witness ==
    \E r \in ReqIds :
        /\ req[r].pc = "lookup" /\ req[r].referencedFiles # <<>> /\ req[r].todo # <<>>
        /\ Env.searchFails

(***************************************************************************)
(* SpecSkip: ingestions of reports that mix entries of two test files with *)
(* entries that have no definition, no method name, or a class without a   *)
(* file.                                                                   *)
(***************************************************************************)
SkipReports == FullReports({R_OrderPassed, R_PayFailed, R_NoDef, R_NoName, R_Ghost})

NextSkip == Ingest(Solo, SkipReports)

SpecSkip == Init /\ [][NextSkip]_vars

\* the definitions with the id of a result entry
DefinitionsOf(testResult) == {n \in 1..Len(UnitTests) : UnitTests[n].id = testResult.testId}

\* the test files of the workspace that bear the name of the entry's class
FilesOfClass(env, testResult) ==
    {p \in Range(env.files) :
        \E n \in DefinitionsOf(testResult) :
            Basename(p) = Last(Split(Split(UnitTests[n].className, ",")[1], ".")) \o S_cs}

\* the entry has no definition, or neither it nor its definition names a method
Unidentified(testResult) ==
    \/ DefinitionsOf(testResult) = {}
    \/ /\ testResult.testName = <<>>
       /\ \A n \in DefinitionsOf(testResult) :
             UnitTests[n].testName = <<>> /\ UnitTests[n].name = <<>> /\ UnitTests[n].methodName = <<>>

\* the entry is unidentified or no file of the workspace bears the name of its class
Unresolvable(env, testResult) ==
    Unidentified(testResult) \/ FilesOfClass(env, testResult) = {}

\* the report without its unresolvable entries
Resolvable(env, trx) ==
    [trx EXCEPT !.results = SelectSeq(trx.results, LAMBDA e : ~Unresolvable(env, e))]

\* C15: an entry with no matching definition, with no determinable method name, or
\* whose class resolves to no file is skipped on its own.  The iteration that meets it
\* leaves what the call has collected as it is and goes on to the next entry, it does
\* not end the call in its catch (the search for the file of a class is taken to
\* complete); and the store every completed ingestion leaves is the store of the report
\* without such entries: all the other entries are in it.
C15_UnresolvableEntrySkipped ==
    [][\A p \in Procs :
          LET trx == ing[p].trx
              last == ing[p].i = Len(trx.results)
          IN  /\ (/\ ing[p].pc = "loop" /\ ing'[p] # ing[p]
                  /\ \/ Unidentified(trx.results[ing[p].i])
                     \/ FilesOfClass(Env, trx.results[ing[p].i]) = {} /\ ~Env.searchFails)
                    => /\ ing'[p].pc = (IF last THEN "done" ELSE "loop")
                       /\ ~last => /\ ing'[p].fileTestResults = ing[p].fileTestResults
                                   /\ ing'[p].i = ing[p].i + 1
              /\ Commits(p) =>
                    /\ Content(heap', store') = StoreOfReport(Env, Resolvable(Env, trx))
                    /\ SumOver(DOMAIN store', [f \in DOMAIN store' |-> Len(store'[f].methods)])
                          = Len(Resolvable(Env, trx).results)]_vars

\* an ingestion has skipped an entry without definition and is at the next entry, which
\* resolves; another has recorded an entry and is at one whose class has no file
C15_Witness ==
    \E p \in Procs :
        /\ ing[p].pc = "loop" /\ ing[p].i = 2 /\ ~Env.searchFails
        /\ \/ /\ DefinitionsOf(ing[p].trx.results[1]) = {}
              /\ ~Unresolvable(Env, ing[p].trx.results[2])
              /\ ing[p].fileTestResults = <<>>
           \/ /\ ~Unresolvable(Env, ing[p].trx.results[1])
              /\ FilesOfClass(Env, ing[p].trx.results[2]) = {}
              /\ Len(ing[p].fileTestResults) = 1

\* the file a resolvable entry belongs to
FileOfEntry(env, testResult) ==
    CHOOSE p \in FilesOfClass(env, testResult) :
        \A q \in FilesOfClass(env, testResult) : PositionIn(env.files, p) <= PositionIn(env.files, q)

\* C16: in every file record the methods are in report order: the record's methods
\* are, one for one and in the same order, the entries of the report that resolved to
\* the file (method name and outcome).  A Passed entry followed by a Failed entry of
\* the same file gives state fail, counts 1/1 and the two methods in that order.
C16_MethodsInReportOrder ==
    [][\A p \in Procs : Commits(p) =>
          \A f \in DOMAIN store' :
              LET methods == Deref(heap', store'[f]).methods
                  entries == SelectSeq(UnitTestResultsOf(ing[p].trx),
                                       LAMBDA e : ~Unresolvable(Env, e) /\ FileOfEntry(Env, e) = f)
              IN  /\ Len(methods) = Len(entries)
                  /\ \A k \in 1..Len(methods) :
                        /\ methods[k].outcome = entries[k].outcome
                        /\ methods[k].methodName =
                              MethodNameOf(entries[k], TestDefOf(UnitTests, entries[k].testId))
                  /\ (Len(entries) = 2 /\ entries[1].outcome = S_Passed /\ entries[2].outcome = S_Failed)
                        => /\ store'[f].state = "fail"
                           /\ store'[f].counts = [passed |-> 1, failed |-> 1]]_vars

\* the store of a report with a Passed entry followed by a Failed entry of one file
C16_Witness ==
    /\ \E p \in Procs : ing[p].pc = "done"
    /\ \E f \in DOMAIN store :
          LET methods == Deref(heap, store[f]).methods
          IN  /\ Len(methods) = 2
              /\ methods[1].outcome = S_Passed /\ methods[2].outcome = S_Failed
              /\ store[f].state = "fail" /\ store[f].counts = [passed |-> 1, failed |-> 1]

(***************************************************************************)
(* getChildren on a file of the tree: getFailedMethodsForFile.  It has no  *)
(* await: the read of the store, the filter and the items are one step.    *)
(***************************************************************************)
\* the filter with outcome !== 'Passed'
getFailedMethodsForFile_NotPassed(testFileResults, h, filePath) ==
    IF filePath \notin DOMAIN testFileResults THEN <<>>
    ELSE SelectSeq(testFileResults[filePath].methods, LAMBDA o : h[o].outcome # S_Passed)

\* the method records of the items returned: [] when the path has no record
getFailedMethodsForFile(testFileResults, h, filePath) ==
    IF filePath \notin DOMAIN testFileResults THEN <<>>
    ELSE SelectSeq(testFileResults[filePath].methods, LAMBDA o : h[o].outcome = S_Failed)

\* the file items the tree can hold: the test files getTestFilesForCategory lists,
\* whether or not the store has a record of them
ExpandPaths == {P_OrderTests, P_PayTests, P_PricingTests}

ExpandFile(filePath) ==
    /\ exp.pc = "idle"
    /\ exp' = [pc |-> "done", filePath |-> filePath,
               items |-> getFailedMethodsForFile(store, heap, filePath), threw |-> FALSE]
    /\ UNCHANGED <<fs, heap, store, deco, ing, rd, req, gen, cls, sav, db, run, disk>>

\* the tree view takes the items
ExpandReturn ==
    /\ exp.pc = "done"
    /\ exp' = IdleExpand
    /\ UNCHANGED <<fs, heap, store, deco, ing, rd, req, gen, cls, sav, db, run, disk>>

(***************************************************************************)
(* SpecExpand: ingestions and expansions of the files of the tree.         *)
(***************************************************************************)
ExpandReports == FullReports({R_OrderPassed, R_PayFailed, R_PaySkipped})

NextExpand ==
    \/ Ingest(Solo, ExpandReports)
    \/ \E filePath \in ExpandPaths : ExpandFile(filePath)
    \/ ExpandReturn

SpecExpand == Init /\ [][NextExpand]_vars

\* C17: expanding a test file yields exactly the method records of the file whose
\* outcome is Failed, each once, in the order the file record has them; for a path
\* without record in the store it yields the empty list; it does not raise.
C17_ExpandYieldsFailedInOrder ==
    [][(exp.pc = "idle" /\ exp'.pc = "done") =>
          LET f == exp'.filePath
              items == exp'.items
          IN  /\ ~exp'.threw
              /\ f \notin DOMAIN store => items = <<>>
              /\ f \in DOMAIN store =>
                    /\ Range(items) = {o \in Range(store[f].methods) : heap[o].outcome = S_Failed}
                    /\ NoDuplicates(items)
                    /\ \A i, j \in 1..Len(items) :
                          i < j => PositionIn(store[f].methods, items[i])
                                     < PositionIn(store[f].methods, items[j])]_vars

\* the expansion of a file with a method that was not executed and a failed one
\* returned the failed one alone
C17_Witness ==
    /\ exp.pc = "done" /\ exp.filePath \in DOMAIN store
    /\ Len(store[exp.filePath].methods) = 2
    /\ heap[store[exp.filePath].methods[1]].outcome = S_NotExecuted
    /\ exp.items = <<store[exp.filePath].methods[2]>>

(***************************************************************************)
(* The Clear Test Results command.                                         *)
(***************************************************************************)
\* TestResultDecorationProvider.clearAllStates: testFileStatus.clear()
clearAllStates(testFileStatus) == <<>>

\* the handler of xunit-tester.clearTestResults: it clears the decorations and shows a
\* message; it does not call the TestExplorerProvider
ClearTestResults ==
    /\ deco' = clearAllStates(deco)
    /\ UNCHANGED <<fs, heap, store, ing, rd, req, exp, gen, cls, sav, db, run, disk>>

\* the states the file entries of the Test Explorer show: result?.state of every test
\* file getTestFilesForCategory lists
FileStatesShown(env, s) ==
    {s[p].state : p \in {q \in Range(CategoryFiles(env, Folders[1])) \cup Range(CategoryFiles(env, Folders[2])) :
                            q \in DOMAIN s}}

\* the icons the folder entries of the Test Explorer show
FolderIconsShown(env, s) == {FolderNodes(env, s)[n].icon : n \in 1..Len(FolderNodes(env, s))}

\* provideFileDecoration gives a badge for the files whose status is pass or fail
DecoratedFiles(testFileStatus) == {p \in DOMAIN testFileStatus : testFileStatus[p] \in {"pass", "fail"}}

(***************************************************************************)
(* SpecClear: ingestions and the Clear Test Results command.               *)
(***************************************************************************)
ClearReports == FullReports({R_OrderPassed, R_OrderFailed, R_PayFailed})

NextClear ==
    \/ Ingest(Solo, ClearReports)
    \/ ClearTestResults

SpecClear == Init /\ [][NextClear]_vars

\* C18: after the Clear Test Results command no file carries a pass or fail decoration
\* and no file or folder entry of the Test Explorer shows a pass or fail state.  Stated
\* on the step of the command (the one that empties the decorations).
C18_ClearResetsIndicators ==
    [][(deco # <<>> /\ deco' = <<>>) =>
          /\ DecoratedFiles(deco') = {}
          /\ FileStatesShown(Env, store') \cap {"pass", "fail"} = {}
          /\ FolderIconsShown(Env, store') \cap {"pass", "fail"} = {}]_vars

\* the decorations are cleared and the store still holds the results of the run
C18_Witness ==
    /\ deco = <<>> /\ store # <<>>
    /\ \E p \in Procs : ing[p].pc = "done"

(***************************************************************************)
(* The Generate Tests with AI command: generateTestsWithLLM.  It awaits    *)
(* getProjectRoot, the search for the companion source file, the read of   *)
(* the inputs, and the streamed request; the settings of the model are     *)
(* read and validated after the inputs, without an await in between.  A    *)
(* workspace folder is open in every workspace of FsConfigs, so            *)
(* getProjectRoot returns a root.                                          *)
(***************************************************************************)
\* controllerTestGenerator.openAIApiModel as the user can leave or set it
UnsetModel == "unset"
DefaultModel == "gpt-4o-mini"
SupportedModels == {"gpt-4.1-mini", "gpt-4.1", "gpt-4.1-nano"}
DocumentedModels == {"gpt-4o-mini", "gpt-4o", "gpt-3.5-turbo"}
ModelSettings == {UnsetModel} \cup SupportedModels \cup DocumentedModels

\* controllerTestGenerator.openAIApiKey: blank (the default "") or a key
NoKey == ""
KeySettings == {NoKey, "sk-key"}

\* cfg.get("openAIApiModel") ?? "gpt-4o-mini": the contributed default when unset
ModelInUse(setting) == IF setting = UnsetModel THEN DefaultModel ELSE setting

\* the check of the model against the list of the code
ModelAccepted(model) == model \in SupportedModels

GenerateEnd(outcome) == [gen EXCEPT !.pc = "done", !.outcome = outcome]

\* the command on a test file of the tree: the key is read
GenerateCall(key, setting, testFile) ==
    /\ gen.pc = "idle"
    /\ LET called == [pc |-> "root", key |-> key, model |-> setting, testFile |-> testFile,
                      outcome |-> "none"]
       IN  gen' = IF key = NoKey THEN [called EXCEPT !.pc = "done", !.outcome = "nokey"] ELSE called
    /\ UNCHANGED <<fs, heap, store, deco, ing, rd, req, exp, cls, sav, db, run, disk>>

\* getProjectRoot returns
GenerateRoot ==
    /\ gen.pc = "root"
    /\ gen' = [gen EXCEPT !.pc = "find"]
    /\ UNCHANGED <<fs, heap, store, deco, ing, rd, req, exp, cls, sav, db, run, disk>>

\* findFiles for the companion source file, FooService.cs of FooServiceTests.cs
GenerateFind ==
    /\ gen.pc = "find"
    /\ gen' = IF Env.searchFails THEN GenerateEnd("threw")
              ELSE IF Limit(FindByName(Env, BaseFileName(gen.testFile) \o S_cs), 1) = <<>>
              THEN GenerateEnd("nosource")
              ELSE [gen EXCEPT !.pc = "inputs"]
    /\ UNCHANGED <<fs, heap, store, deco, ing, rd, req, exp, cls, sav, db, run, disk>>

\* the source and the example test are read; then the settings and the check of the model
GenerateInputs ==
    /\ gen.pc = "inputs"
    /\ gen' = IF Env.unreadable \/ Env.searchFails THEN GenerateEnd("threw")
              ELSE IF ~ModelAccepted(ModelInUse(gen.model)) THEN GenerateEnd("unsupported")
              ELSE [gen EXCEPT !.pc = "request"]
    /\ UNCHANGED <<fs, heap, store, deco, ing, rd, req, exp, cls, sav, db, run, disk>>

\* the generation request: the stream is written to the test file, or an error is
\* caught and reported
GenerateRequest(ok) ==
    /\ gen.pc = "request"
    /\ gen' = GenerateEnd(IF ok THEN "generated" ELSE "failed")
    /\ UNCHANGED <<fs, heap, store, deco, ing, rd, req, exp, cls, sav, db, run, disk>>

GenerateReturn ==
    /\ gen.pc = "done"
    /\ gen' = IdleGenerate
    /\ UNCHANGED <<fs, heap, store, deco, ing, rd, req, exp, cls, sav, db, run, disk>>

(***************************************************************************)
(* SpecGenerate: the command, on the test files of the project of the      *)
(* pricing service, whose file search comes to fail and recovers.          *)
(***************************************************************************)
GenerateFiles == {P_OrderTests, P_PricingTests}

GenerateMoves == {<<7, 9>>, <<9, 7>>}

NextGenerate ==
    \/ \E key \in KeySettings, setting \in ModelSettings, testFile \in GenerateFiles :
          GenerateCall(key, setting, testFile)
    \/ GenerateRoot
    \/ GenerateFind
    \/ GenerateInputs
    \/ \E ok \in BOOLEAN : GenerateRequest(ok)
    \/ GenerateReturn
    \/ \E to \in FsIds : FsChange(GenerateMoves, to)

SpecGenerate == InitIn({7}) /\ [][NextGenerate]_vars

\* C20: with an API key configured and the model setting left at its default, the
\* command does not end with the unsupported-model error: it passes the check of the
\* model and goes on to the generation request.
C20_DefaultModelAccepted ==
    (gen.key # NoKey /\ gen.model = UnsetModel) => gen.outcome # "unsupported"

\* the command has passed the check of the model and is at the generation request
C20_Witness ==
    gen.pc = "request" /\ gen.key # NoKey /\ ModelInUse(gen.model) \in SupportedModels

(***************************************************************************)
(* The analysis of a test class on its own: analyzeTestClassDependencies   *)
(* applied to a text, then the lookup of the variables a method uses in    *)
(* the maps it returned (the loop over usedVariables and the loop over the *)
(* mock types of analyzeTestMethodReferences).                             *)
(***************************************************************************)
MaxDeclarations == 2

V_Pay == <<"_","P","a","y">>  \* _Pay
V_pay == <<"_","p","a","y">>  \* _pay

\* the field declarations and assignments of new objects the texts are written with
Declarations ==
    [form : {"private readonly", "private", "bare"}, type : {T_Order, T_MockIPay},
     name : {V_order, V_mockPay}]
News == [name : {V_order, V_mockPay}, type : {T_Order, T_MockIPay}]

\* the texts: up to MaxDeclarations declarations and at most one assignment
ClassTexts ==
    [fields : {<<>>} \cup SeqsUpTo(Declarations, MaxDeclarations),
     news : {<<>>} \cup SeqsUpTo(News, 1),
     methods : {<<>>}]

\* the variables of a method body: the mock, the field the mock stands for, another field
UsedVariables == {<<V_pay>>, <<V_mockPay, V_pay>>, <<V_order, V_Pay>>}

ClassAnalyse(fileContent) ==
    /\ cls.pc = "idle"
    /\ cls' = [IdleClass EXCEPT !.pc = "analysed", !.fileContent = fileContent,
                                !.classAnalysis = analyzeTestClassDependencies(fileContent)]
    /\ UNCHANGED <<fs, heap, store, deco, ing, rd, req, exp, gen, sav, db, run, disk>>

ClassResolve(usedVariables) ==
    /\ cls.pc = "analysed"
    /\ cls' = [cls EXCEPT !.pc = "resolved", !.usedVariables = usedVariables,
                          !.referencedTypes = ReferencedTypes(cls.classAnalysis, usedVariables)]
    /\ UNCHANGED <<fs, heap, store, deco, ing, rd, req, exp, gen, sav, db, run, disk>>

ClassReturn ==
    /\ cls.pc = "resolved"
    /\ cls' = IdleClass
    /\ UNCHANGED <<fs, heap, store, deco, ing, rd, req, exp, gen, sav, db, run, disk>>

NextClass ==
    \/ \E fileContent \in ClassTexts : ClassAnalyse(fileContent)
    \/ \E usedVariables \in UsedVariables : ClassResolve(usedVariables)
    \/ ClassReturn

SpecClass == InitIn({1}) /\ [][NextClass]_vars

Keys(m) == {m[i].key : i \in 1..Len(m)}

\* C21: in the maps analyzeTestClassDependencies returns for any text, no name is a key
\* of both fieldTypes and mockTypes
C21_NoSymbolInBothMaps ==
    cls.pc # "idle" => Keys(cls.classAnalysis.fieldTypes) \cap Keys(cls.classAnalysis.mockTypes) = {}

\* a text that declares a mock has been analysed
C21_Witness ==
    /\ cls.pc = "analysed"
    /\ \E i \in 1..Len(cls.fileContent.fields) : MockedType(cls.fileContent.fields[i].type) # <<>>
    /\ cls.fileContent.news = <<>>

Capitals == <<"A","B","C","D","E","F","G","H","I","J","K","L","M",
              "N","O","P","Q","R","S","T","U","V","W","X","Y","Z">>
Smalls == <<"a","b","c","d","e","f","g","h","i","j","k","l","m",
            "n","o","p","q","r","s","t","u","v","w","x","y","z">>

\* the name of the field a mock _mockService or mockService stands for: _service
ServiceField(mockName) ==
    LET rest == IF StartsWith(mockName, S_umock)
                THEN SubSeq(mockName, Len(S_umock) + 1, Len(mockName))
                ELSE SubSeq(mockName, Len(S_mock) + 1, Len(mockName))
        first == IF \E k \in 1..26 : Capitals[k] = rest[1]
                 THEN Smalls[CHOOSE k \in 1..26 : Capitals[k] = rest[1]] ELSE rest[1]
    IN  S_u \o <<first>> \o Tail(rest)

\* the mocks of a text whose name begins with _mock or mock, none of them assigned or
\* declared again
PlainMocks(fileContent) ==
    {i \in 1..Len(fileContent.fields) :
        /\ MockedType(fileContent.fields[i].type) # <<>>
        /\ (StartsWith(fileContent.fields[i].name, S_umock) \/ StartsWith(fileContent.fields[i].name, S_mock))
        /\ Len(fileContent.fields[i].name) > Len(S_umock)}

\* C22: a method that uses the field _service of a mock declared as Mock<Type>
\* _mockService gets Type for it from fieldTypes
C22_MockFieldResolves ==
    cls.pc = "resolved" =>
        \A i \in PlainMocks(cls.fileContent) :
            LET field == ServiceField(cls.fileContent.fields[i].name)
            IN  field \in Range(cls.usedVariables) =>
                    OrdGet(cls.classAnalysis.fieldTypes, field) = MockedType(cls.fileContent.fields[i].type)

\* the variables of a method that uses _pay have been looked up in the analysis of a
\* text that declares Mock<IPay> _mockPay and nothing else
C22_Witness ==
    /\ cls.pc = "resolved"
    /\ V_pay \in Range(cls.usedVariables)
    /\ Len(cls.fileContent.fields) = 1
    /\ cls.fileContent.fields[1].type = T_MockIPay /\ cls.fileContent.fields[1].name = V_mockPay
    /\ cls.fileContent.news = <<>>

\* the declarations of name in the order the field patterns meet them: those with
\* private first, the bare ones after them, each group in textual order
MatchesOf(fileContent, name) ==
    SelectSeq(fileContent.fields, LAMBDA f : f.name = name /\ f.form # "bare")
    \o SelectSeq(fileContent.fields, LAMBDA f : f.name = name /\ f.form = "bare")

AssignmentsOf(fileContent, name) == SelectSeq(fileContent.news, LAMBDA n : n.name = name)

\* the mocks whose derived name is name
MocksFor(fileContent, name) ==
    SelectSeq(fileContent.fields, LAMBDA f : MockedType(f.type) # <<>> /\ ObjectName(f.name) = name)

\* C23: the symbol table is built from the field patterns, then the mock declarations,
\* then the assignments of new objects: a name that is assigned has the type of its
\* last assignment whatever was declared; otherwise a name a mock is projected on has
\* the mocked type; otherwise it has the type of the first match of the field patterns
C23_FieldsFirstInstantiationLast ==
    cls.pc # "idle" =>
        \A name \in {V_order, V_mockPay, V_Pay, V_pay} :
            LET text == cls.fileContent
                got == OrdGet(cls.classAnalysis.fieldTypes, name)
            IN  IF AssignmentsOf(text, name) # <<>>
                THEN got = Last(AssignmentsOf(text, name)).type
                ELSE IF MocksFor(text, name) # <<>>
                THEN got = MockedType(Last(MocksFor(text, name)).type)
                ELSE IF MatchesOf(text, name) # <<>>
                THEN got = Head(MatchesOf(text, name)).type
                ELSE got = <<>>

\* a text has been analysed in which a name is declared twice with two types, the bare
\* declaration first, and assigned an object of the type that lost
C23_Witness ==
    /\ cls.pc = "analysed"
    /\ Len(cls.fileContent.fields) = 2
    /\ cls.fileContent.fields[1].name = V_order /\ cls.fileContent.fields[2].name = V_order
    /\ cls.fileContent.fields[1].form = "bare" /\ cls.fileContent.fields[2].form = "private"
    /\ cls.fileContent.fields[1].type = T_Order /\ cls.fileContent.fields[2].type = T_MockIPay
    /\ cls.fileContent.news = <<[name |-> V_order, type |-> T_Order]>>

(***************************************************************************)
(* SpecEntries: ingestions of reports whose entries take their method name *)
(* from each of its four places and their error message from each of its   *)
(* three, in a POSIX workspace.                                            *)
(***************************************************************************)
EntryReports ==
    FullReports({R_DefTestName, R_DefName, R_StdOut})
        \cup {FullReport(<<R_OrderFailed>>), FullReport(<<R_PayFailed>>)}

NextEntries == Ingest(Solo, EntryReports)

SpecEntries == InitIn({1}) /\ [][NextEntries]_vars

\* the first of the values that is not empty, <<>> when all are
FirstNonEmpty(values) ==
    LET filled == SelectSeq(values, LAMBDA v : v # <<>>)
    IN  IF filled = <<>> THEN <<>> ELSE Head(filled)

\* what follows the last '.' of a name
LastSegment(name) == SubSeq(name, LastIndexOf(name, ".") + 1, Len(name))

\* the attributes a method name is taken from, first to last
NameSources(testResult) ==
    LET def == UnitTests[CHOOSE n \in DefinitionsOf(testResult) : TRUE]
    IN  <<testResult.testName, def.testName, def.name, def.methodName>>

\* the entries of a report that are recorded under file f, in report order
EntriesOf(env, trx, f) ==
    SelectSeq(UnitTestResultsOf(trx), LAMBDA e : ~Unresolvable(env, e) /\ FileOfEntry(env, e) = f)

\* C24: the method name stored for an entry is the last '.'-separated segment of the
\* first non-empty value among the result's testName, the definition's TestMethod
\* testName, the definition's name and the definition's TestMethod methodName
C24_MethodNameFromFirstSource ==
    [][\A p \in Procs : Commits(p) =>
          \A f \in DOMAIN store' :
              LET methods == Deref(heap', store'[f]).methods
                  entries == EntriesOf(Env, ing[p].trx, f)
              IN  /\ Len(methods) = Len(entries)
                  /\ \A k \in 1..Len(methods) :
                        methods[k].methodName = LastSegment(FirstNonEmpty(NameSources(entries[k])))]_vars

\* the store of a report whose first entry is named by the qualified testName of its
\* definition's TestMethod and whose second by the name of its definition
C24_Witness ==
    /\ \E p \in Procs : ing[p].pc = "done"
    /\ P_PayTests \in DOMAIN store
    /\ LET methods == Deref(heap, store[P_PayTests]).methods
       IN  /\ Len(methods) = 2
           /\ methods[1].methodName = M_Creates
           /\ methods[2].methodName = M_Missing

\* C25: a method record has an errorMessage exactly when its outcome is Failed, and
\* then it is the first available of ErrorInfo Message, ErrorInfo StackTrace and StdOut,
\* or else a default text that contains the method name
C25_ErrorMessageOnlyWhenFailed ==
    [][\A p \in Procs : Commits(p) =>
          \A f \in DOMAIN store' :
              LET methods == Deref(heap', store'[f]).methods
                  entries == EntriesOf(Env, ing[p].trx, f)
              IN  /\ Len(methods) = Len(entries)
                  /\ \A k \in 1..Len(methods) :
                        LET given == FirstNonEmpty(<<entries[k].message, entries[k].stackTrace,
                                                     entries[k].stdOut>>)
                        IN  /\ methods[k].errorMessage # Undefined <=> methods[k].outcome = S_Failed
                            /\ methods[k].outcome = S_Failed =>
                                  IF given # <<>> THEN methods[k].errorMessage = given
                                  ELSE Includes(methods[k].errorMessage, methods[k].methodName)]_vars

\* the store of a report with a Passed entry that has a Message and a StdOut, and a
\* Failed entry without Message that has a StackTrace and a StdOut
C25_Witness ==
    /\ \E p \in Procs : ing[p].pc = "done"
    /\ \E f \in DOMAIN store :
          LET methods == Deref(heap, store[f]).methods
          IN  /\ Len(methods) = 2
              /\ methods[1].outcome = S_Passed /\ methods[1].errorMessage = Undefined
              /\ methods[2].outcome = S_Failed /\ methods[2].errorMessage = E_trace

(***************************************************************************)
(* SpecOutput: ingestions in a project that gets built and cleaned: a copy *)
(* of a test class appears in the build output and disappears again.       *)
(***************************************************************************)
OutputReports == FullReports({R_OrderFailed, R_OrderPassed, R_PayFailed})

OutputMoves == {<<10, 1>>, <<1, 10>>}

NextOutput ==
    \/ Ingest(Solo, OutputReports)
    \/ \E to \in FsIds : FsChange(OutputMoves, to)

SpecOutput == InitIn({10}) /\ [][NextOutput]_vars

\* C26: the file an ingestion binds to a test class never lies under a build-output
\* directory (bin, obj): no key of the store is a path inside such a directory
C26_NoStoreKeyUnderBuildOutput ==
    \A f \in DOMAIN store : ~UnderBuildOutput(f)

\* an ingestion has recorded a class of which the workspace holds the source file and a
\* copy in the build output
C26_Witness ==
    /\ \E p \in Procs : ing[p].pc = "done"
    /\ {P_ObjOrderTests, P_OrderTests} \subseteq Range(Env.files)
    /\ \E f \in DOMAIN store : Basename(f) = Basename(P_OrderTests)

\* a request on record o ends with its cache fill
Fills(r, o) ==
    /\ req[r].pc \in {"read", "lookup"} /\ req[r].target = o
    /\ req'[r].pc = "done" /\ req'[r].wrote

\* C29: when an ingestion replaces the store while a request is suspended, the
\* request's later cache fill changes no record of the new store.  The records an
\* ingestion puts into the store have an empty referencedFiles, and the referencedFiles
\* and none of them is the record a suspended request holds; the referencedFiles of a
\* record of the store changes only in the step in which a request made on that very
\* record ends; a request whose record the store no longer holds leaves every record
\* of the store as it is.
C29_CacheFillMissesNewStore ==
    [][/\ (\E p \in Procs : Commits(p)) =>
              /\ \A o \in StoreObjects(store') : heap'[o].referencedFiles = <<>>
              /\ \A r \in ReqIds : req[r].pc # "idle" => req[r].target \notin StoreObjects(store')
       /\ (\A p \in Procs : ~Commits(p)) =>
              \A o \in StoreObjects(store') :
                  heap'[o].referencedFiles # heap[o].referencedFiles => \E r \in ReqIds : Fills(r, o)
       /\ \A r \in ReqIds :
              (req[r].pc \in {"read", "lookup"} /\ req'[r].pc = "done"
               /\ req[r].target \notin StoreObjects(store))
              => Content(heap', store') = Content(heap, store)]_vars

\* a request has stored a non-empty list on a record that an ingestion had replaced in
\* the store while the request was suspended; the record of the new store is empty
C29_Witness ==
    \E r \in Done :
        /\ req[r].wrote /\ req[r].returned # <<>>
        /\ req[r].target \notin StoreObjects(store)
        /\ heap[req[r].target].referencedFiles = req[r].returned
        /\ StoreObjects(store) # {}
        /\ \A o \in StoreObjects(store) : heap[o].referencedFiles = <<>>

(***************************************************************************)
(* parseResultsAndUpdateDecorations with the test database.  After the     *)
(* decorations it awaits getProjectRoot and, when the run gave a file      *)
(* result, saveTestResultsToDatabase, which awaits the read of             *)
(* database.json when the file exists and the write of the whole file.     *)
(***************************************************************************)
MaxRuns == 2

\* where a saveTestResultsToDatabase that is not in progress stands
SaveReturned == {"idle", "done", "failed"}

\* the call of the version that saves: as IngestBegin, and the save is due at its end
IngestBeginSaving(p, trx) ==
    /\ ing[p].pc \in Returned
    /\ sav[p].pc \in SaveReturned
    /\ sav[p].saved < MaxRuns
    /\ ing' = [ing EXCEPT ![p] = [pc |-> "read", trx |-> trx, i |-> 1, fileTestResults |-> <<>>]]
    /\ sav' = [sav EXCEPT ![p] = [@ EXCEPT !.pc = "armed", !.files = 0, !.database = <<>>]]
    /\ UNCHANGED <<fs, heap, store, deco, rd, req, exp, gen, cls, db, run, disk>>

\* the entry of a run: RunId is unique to the call, FilesInvolved counts its file results
NewEntry(p) == [RunId |-> <<p, sav[p].saved + 1>>, FilesInvolved |-> sav[p].files]

\* database.Tests.push(entry)
PushEntry(Tests, entry) == Append(Tests, entry)

\* the file JSON.stringify(database) makes: TotalRuns is database.Tests.length
DatabaseFile(Tests) == [exists |-> TRUE, TotalRuns |-> Len(Tests), Tests |-> Tests]

\* getProjectRoot has returned (its file search may throw: the catch of the call); the
\* test of testResults.length, existsSync, and the call of readFile or of writeFile
SaveRoot(p) ==
    /\ sav[p].pc = "root"
    /\ IF Env.searchFails THEN sav' = [sav EXCEPT ![p].pc = "failed"]
       ELSE IF sav[p].files = 0 THEN sav' = [sav EXCEPT ![p].pc = "done"]
       ELSE IF db.exists THEN sav' = [sav EXCEPT ![p].pc = "read"]
       ELSE sav' = [sav EXCEPT ![p].pc = "write", ![p].database = PushEntry(<<>>, NewEntry(p))]
    /\ UNCHANGED <<fs, heap, store, deco, ing, rd, req, exp, gen, cls, db, run, disk>>

\* readFile has returned the file as it is now: JSON.parse, the entry pushed, writeFile
\* called with the whole database
SaveRead(p) ==
    /\ sav[p].pc = "read"
    /\ sav' = [sav EXCEPT ![p].pc = "write", ![p].database = PushEntry(db.Tests, NewEntry(p))]
    /\ UNCHANGED <<fs, heap, store, deco, ing, rd, req, exp, gen, cls, db, run, disk>>

\* writeFile has replaced the file
SaveWrite(p) ==
    /\ sav[p].pc = "write"
    /\ db' = DatabaseFile(sav[p].database)
    /\ sav' = [sav EXCEPT ![p].pc = "done", ![p].saved = @ + 1]
    /\ UNCHANGED <<fs, heap, store, deco, ing, rd, req, exp, gen, cls, run, disk>>

Save(procs) ==
    \/ \E p \in procs : SaveRoot(p)
    \/ \E p \in procs : SaveRead(p)
    \/ \E p \in procs : SaveWrite(p)

(***************************************************************************)
(* SpecDatabase: ingestions that save, of two calls that may overlap.      *)
(***************************************************************************)
DatabaseReports == {FullReport(<<R_OrderFailed>>), FullReport(<<R_NoDef>>), NoResultsReport}

NextDatabase ==
    \/ \E p \in Procs, trx \in DatabaseReports : IngestBeginSaving(p, trx)
    \/ \E p \in Procs : IngestRead(p)
    \/ \E p \in Procs : IngestEntry(p)
    \/ Save(Procs)

SpecDatabase == InitIn({1}) /\ [][NextDatabase]_vars

\* the ingestions that gave a file result and have returned
SavedRuns == SumOver(Procs, [p \in Procs |-> sav[p].saved])

\* no call is in progress
Quiet == \A p \in Procs : ing[p].pc \in Returned /\ sav[p].pc \in SaveReturned

\* C27: every ingestion that yields a file result adds one entry to database.json and
\* keeps the entries stored before: after n such ingestions, overlapping or not, the
\* database holds n entries, the one of each of them, and TotalRuns is n
C27_EveryRunKept ==
    Quiet =>
        /\ Len(db.Tests) = SavedRuns
        /\ db.TotalRuns = SavedRuns
        /\ \A p \in Procs : \A k \in 1..sav[p].saved :
              \E i \in 1..Len(db.Tests) : db.Tests[i].RunId = <<p, k>>

\* two ingestions that gave a file result have both read the database and are both
\* about to write it
C27_Witness ==
    /\ \A p \in Procs : sav[p].pc = "write" /\ sav[p].files > 0
    /\ db.exists

\* C28: after any sequence of ingestions, every file that carries a pass or fail
\* decoration has a record in the store with that state: a file that is absent from the
\* latest run carries no decoration of an earlier one
C28_DecorationsFollowStore ==
    (\A p \in Procs : ing[p].pc \in Returned) =>
        \A f \in DecoratedFiles(deco) : f \in DOMAIN store /\ store[f].state = deco[f]

\* a second ingestion has ended whose report has results of one file only, after a first
\* that gave results of another file
C28_Witness ==
    /\ \E p \in Procs : ing[p].pc = "done"
    /\ DOMAIN store = {P_PayTests}
    /\ P_OrderTests \in DOMAIN deco

(***************************************************************************)
(* The run commands: runTestsAndUpdateDecorations, runSingleTestMethod and *)
(* runFolderTests.  All three await getProjectRoot, the search for old     *)
(* report files, the unlink of each, dotnet test with the logger file      *)
(* TestResults/results.trx, the search for the new report files, and       *)
(* parseResultsAndUpdateDecorations of the newest.                         *)
(***************************************************************************)
\* a command that is not running: never made, or ended
RunReturned == {"idle"}

RunEnded(p, outcome) == [run[p] EXCEPT !.pc = "idle", !.outcome = outcome]

\* the command is invoked; trx is the report its dotnet test is going to write
RunCall(p, trx) ==
    /\ run[p].pc \in RunReturned
    /\ run[p].calls < MaxRuns
    /\ run' = [run EXCEPT ![p] = [pc |-> "root", trx |-> trx, oldResultFiles |-> 0,
                                  ingested |-> "none", outcome |-> "none",
                                  calls |-> @.calls + 1]]
    /\ UNCHANGED <<fs, heap, store, deco, ing, rd, req, exp, gen, cls, sav, db, disk>>

\* getProjectRoot has returned (a file search of it that throws rejects the command);
\* withProgress runs the callback, which calls findFiles for the old report files
RunRoot(p) ==
    /\ run[p].pc = "root"
    /\ run' = [run EXCEPT ![p] = IF Env.searchFails THEN RunEnded(p, "error")
                                 ELSE [@ EXCEPT !.pc = "old"]]
    /\ UNCHANGED <<fs, heap, store, deco, ing, rd, req, exp, gen, cls, sav, db, disk>>

\* findFiles has returned the report files there are now; unlink is called for the
\* first, or dotnet test is started when there is none
RunFindOld(p) ==
    /\ run[p].pc = "old"
    /\ run' = [run EXCEPT ![p] = IF disk.exists
                                 THEN [@ EXCEPT !.pc = "unlink", !.oldResultFiles = 1]
                                 ELSE [@ EXCEPT !.pc = "exec"]]
    /\ UNCHANGED <<fs, heap, store, deco, ing, rd, req, exp, gen, cls, sav, db, disk>>

\* unlink has returned: the file is gone and dotnet test is started; a file that was
\* gone already makes it throw, which the catch of the callback reports
RunUnlink(p) ==
    /\ run[p].pc = "unlink"
    /\ IF disk.exists
       THEN /\ disk' = NoTrx
            /\ run' = [run EXCEPT ![p].pc = "exec"]
       ELSE /\ run' = [run EXCEPT ![p] = RunEnded(p, "error")]
            /\ UNCHANGED disk
    /\ UNCHANGED <<fs, heap, store, deco, ing, rd, req, exp, gen, cls, sav, db>>

\* dotnet test has ended and has written TestResults/results.trx; findFiles is called
\* for the new report files
RunExec(p) ==
    /\ run[p].pc = "exec"
    /\ disk' = [exists |-> TRUE, by |-> p, trx |-> run[p].trx]
    /\ run' = [run EXCEPT ![p].pc = "new"]
    /\ UNCHANGED <<fs, heap, store, deco, ing, rd, req, exp, gen, cls, sav, db>>

\* findFiles has returned: the newest report file is handed to
\* parseResultsAndUpdateDecorations, which reads it; without a file the command reports
\* that no TRX result file was found
RunFindNew(p) ==
    /\ run[p].pc = "new"
    /\ IF disk.exists
       THEN /\ run' = [run EXCEPT ![p] = [@ EXCEPT !.pc = "parse", !.ingested = disk.by]]
            /\ ing' = [ing EXCEPT ![p] = [pc |-> "read", trx |-> disk.trx, i |-> 1,
                                          fileTestResults |-> <<>>]]
            /\ sav' = [sav EXCEPT ![p] = [@ EXCEPT !.pc = "armed", !.files = 0,
                                                   !.database = <<>>]]
       ELSE /\ run' = [run EXCEPT ![p] = RunEnded(p, "notfound")]
            /\ UNCHANGED <<ing, sav>>
    /\ UNCHANGED <<fs, heap, store, deco, rd, req, exp, gen, cls, db, disk>>

\* parseResultsAndUpdateDecorations has returned: the command shows that it finished
RunDone(p) ==
    /\ run[p].pc = "parse"
    /\ ing[p].pc \in Returned
    /\ sav[p].pc \in SaveReturned
    /\ run' = [run EXCEPT ![p] = RunEnded(p, "finished")]
    /\ UNCHANGED <<fs, heap, store, deco, ing, rd, req, exp, gen, cls, sav, db, disk>>

Run(procs, reports) ==
    \/ \E p \in procs, trx \in reports : RunCall(p, trx)
    \/ \E p \in procs : RunRoot(p)
    \/ \E p \in procs : RunFindOld(p)
    \/ \E p \in procs : RunUnlink(p)
    \/ \E p \in procs : RunExec(p)
    \/ \E p \in procs : RunFindNew(p)
    \/ \E p \in procs : RunDone(p)

(***************************************************************************)
(* SpecRuns: two run commands that may overlap.                            *)
(***************************************************************************)
RunReports == {FullReport(<<R_OrderFailed>>), FullReport(<<R_PayFailed>>)}

NextRuns ==
    \/ Run(Procs, RunReports)
    \/ \E p \in Procs : IngestRead(p)
    \/ \E p \in Procs : IngestEntry(p)
    \/ Save(Procs)

SpecRuns == InitIn({1}) /\ [][NextRuns]_vars

\* C30: the report a run command ingests is the one its own dotnet test wrote; when two
\* run commands overlap, neither ingests the report of the other, and neither is left
\* without its report, or stopped, by the other's deletion of the old report files
C30_OwnReportIngested ==
    \A p \in Procs :
        /\ run[p].ingested \in {"none", p}
        /\ run[p].outcome \in {"none", "finished"}

\* two commands overlap: the dotnet test of one has written its report while the
\* other, started in between, is past its search for old report files
C30_Witness ==
    \E p, q \in Procs :
        /\ p # q
        /\ run[p].pc = "new"
        /\ run[q].pc \in {"unlink", "exec"}
        /\ disk.exists => disk.by = p
====
